---- MODULE Spec2Model ----
(***************************************************************************)
(* Klon: clone orchestration core.                                         *)
(*                                                                         *)
(* Device names are sequences of one-character strings so that the name    *)
(* parsing and formatting helpers (ensureDevPrefix, baseDiskFromDevice,    *)
(* partitionDevice, looksLikePartition) are computed character by          *)
(* character as the Go code does.                                          *)
(***************************************************************************)
EXTENDS Integers, Sequences, FiniteSets, TLC

(***************************************************************************)
(* Go string helpers (package strings / strconv)                           *)
(***************************************************************************)
Digits == <<"0", "1", "2", "3", "4", "5", "6", "7", "8", "9">>

IsDigit(c) == \E i \in 1..10 : Digits[i] = c

DigitVal(c) == (CHOOSE i \in 1..10 : Digits[i] = c) - 1

HasPrefix(s, p) == Len(s) >= Len(p) /\ SubSeq(s, 1, Len(p)) = p

HasSuffix(s, p) == Len(s) >= Len(p) /\ SubSeq(s, Len(s) - Len(p) + 1, Len(s)) = p

TrimPrefix(s, p) == IF HasPrefix(s, p) THEN SubSeq(s, Len(p) + 1, Len(s)) ELSE s

Contains(s, sub) ==
    \E i \in 1..(Len(s) - Len(sub) + 1) : SubSeq(s, i, i + Len(sub) - 1) = sub

\* strings.LastIndex for a one-character needle, 1-based; 0 when absent.
LastIndex(s, c) ==
    IF \E i \in 1..Len(s) : s[i] = c
    THEN CHOOSE i \in 1..Len(s) : s[i] = c /\ \A j \in (i + 1)..Len(s) : s[j] # c
    ELSE 0

RECURSIVE Itoa(_)
Itoa(n) == IF n < 10 THEN <<Digits[n + 1]>> ELSE Itoa(n \div 10) \o <<Digits[(n % 10) + 1]>>

\* strconv.Atoi succeeds on an optional sign followed by one or more digits.
AtoiOk(s) ==
    LET body == IF Len(s) > 0 /\ s[1] \in {"+", "-"} THEN Tail(s) ELSE s
    IN  Len(body) > 0 /\ \A i \in 1..Len(body) : IsDigit(body[i])

RECURSIVE DigitsVal(_)
DigitsVal(s) == IF s = <<>> THEN 0 ELSE 10 * DigitsVal(SubSeq(s, 1, Len(s) - 1)) + DigitVal(s[Len(s)])

AtoiVal(s) ==
    IF s[1] = "-" THEN 0 - DigitsVal(Tail(s))
    ELSE IF s[1] = "+" THEN DigitsVal(Tail(s))
    ELSE DigitsVal(s)

(***************************************************************************)
(* Literals                                                                *)
(***************************************************************************)
DevPrefix == <<"/", "d", "e", "v", "/">>
StrMmcblk == <<"m", "m", "c", "b", "l", "k">>
StrNvme == <<"n", "v", "m", "e">>
NameSda == <<"s", "d", "a">>
NameSdb == <<"s", "d", "b">>
NameMmc0 == StrMmcblk \o <<"0">>
NameMmc1 == StrMmcblk \o <<"1">>
NameNvme0n1 == StrNvme \o <<"0", "n", "1">>
BootedDisk == <<"b", "o", "o", "t", "e", "d", "-", "d", "i", "s", "k">>

(***************************************************************************)
(* Device-name helpers                                                     *)
(***************************************************************************)
ensureDevPrefix(name) ==
    IF name = <<>> THEN <<>>
    ELSE IF Len(name) >= 5 /\ SubSeq(name, 1, 5) = DevPrefix THEN name
    ELSE DevPrefix \o name

RECURSIVE TrimTrailingDigits(_)
TrimTrailingDigits(s) ==
    IF Len(s) > 0 /\ IsDigit(s[Len(s)])
    THEN TrimTrailingDigits(SubSeq(s, 1, Len(s) - 1))
    ELSE s

baseDiskFromDevice(dev) ==
    IF ~HasPrefix(dev, DevPrefix) THEN dev
    ELSE LET s == TrimTrailingDigits(dev)
         IN  IF HasSuffix(s, <<"p">>) /\ (Contains(s, StrMmcblk) \/ Contains(s, StrNvme))
             THEN SubSeq(s, 1, Len(s) - 1)
             ELSE s

\* a partition name that puts the number right after the disk name
partitionDeviceNoSep(disk, index) == ensureDevPrefix(disk) \o Itoa(index)

partitionDevice(disk, index) ==
    LET base == ensureDevPrefix(disk)
        name == TrimPrefix(base, DevPrefix)
    IN  IF HasPrefix(name, StrMmcblk) \/ HasPrefix(name, StrNvme)
        THEN DevPrefix \o name \o <<"p">> \o Itoa(index)
        ELSE DevPrefix \o name \o Itoa(index)

\* a test that only looks for a digit at the end of the name
looksLikePartitionByDigit(dev) ==
    LET name == TrimPrefix(dev, DevPrefix)
    IN  Len(name) > 0 /\ IsDigit(name[Len(name)])

looksLikePartition(dev) ==
    LET name == TrimPrefix(dev, DevPrefix)
        idx == LastIndex(name, "p")
    IN  IF HasPrefix(name, StrMmcblk) \/ HasPrefix(name, StrNvme)
        THEN idx # 0 /\ idx < Len(name) /\ AtoiOk(SubSeq(name, idx + 1, Len(name)))
        ELSE IF Len(name) = 0 THEN FALSE
        ELSE IsDigit(name[Len(name)])

\* a safety check that never finds two names on one disk
sameDiskNever(a, b) == FALSE

sameDisk(a, b) ==
    baseDiskFromDevice(ensureDevPrefix(a)) = baseDiskFromDevice(ensureDevPrefix(b))

(***************************************************************************)
(* Paths.  A Go path string is kept as its sequence of elements: "" is     *)
(* <<>>, "/" is <<"/">>, "/mnt/clone" is <<"/", "mnt", "clone">> and the    *)
(* relative "boot/x" is <<"boot", "x">>.                                   *)
(***************************************************************************)
EmptyStr == <<>>
RootPath == <<"/">>
BootPath == <<"/", "boot">>
FirmwarePath == <<"/", "boot", "firmware">>
DataPath == <<"/", "data">>
DefaultDestRoot == <<"/", "mnt", "clone">>
TempSrcDir == <<"/", "tmp", "klon-src-1">>

\* strings.TrimPrefix(p, "/")
TrimSlash(p) == IF Len(p) > 0 /\ p[1] = "/" THEN Tail(p) ELSE p

\* filepath.Join(a, b) for a clean a and a relative b
PathJoin(a, b) == IF a = EmptyStr THEN b ELSE a \o b

\* dir is path itself or one of its ancestors
Under(path, dir) == Len(path) >= Len(dir) /\ SubSeq(path, 1, Len(dir)) = dir

(***************************************************************************)
(* rsync command lines.  A command line is kept as its sequence of         *)
(* whitespace-separated fields; every field is a sequence of strings: an   *)
(* option is <<"--delete">>, the pattern "/proc/**" is <<"/","proc","**">>,*)
(* the path "/usr/" is <<"/","usr","/">>.                                  *)
(***************************************************************************)
Flag(f) == <<f>>

RECURSIVE ExcludeArgs(_, _)
ExcludeArgs(opt, pats) ==
    IF pats = <<>> THEN <<>>
    ELSE <<Flag(opt), Head(pats)>> \o ExcludeArgs(opt, Tail(pats))

\* The --delete option the five-argument BuildSyncCommand adds when its
\* deleteFlag is set (placed right after --whole-file).
DeleteArgs(deleteFlag) == IF deleteFlag THEN <<Flag("--delete")>> ELSE <<>>

RootExcludes(destRoot) ==
    << <<"/", "proc", "**">>, <<"/", "sys", "**">>, <<"/", "dev", "**">>,
       <<"/", "run", "**">>, <<"/", "tmp", "**">>, <<"/", "mnt", "**">>,
       <<"/", "media", "**">> >>
    \o (IF destRoot # EmptyStr THEN <<destRoot \o <<"**">>>> ELSE <<>>)
    \o << <<"/", "var", "cache", "**">>, <<"/", "var", "tmp", "**">>,
          <<"/", "var", "log", "journal", "**">>,
          <<"/", "home", "*", ".cache", "**">> >>

\* Result: [err |-> BOOLEAN, cmd |-> fields of the command line]
BuildSyncCommand(step, destRoot, extraExcludes, extraExcludeFrom, deleteFlag) ==
    IF step.Operation # "sync-filesystem" \/ step.Mountpoint = EmptyStr \/ destRoot = EmptyStr
    THEN [err |-> TRUE, cmd |-> <<>>]
    ELSE LET srcPath == step.Mountpoint
             dstPath == IF step.Mountpoint # RootPath
                        THEN PathJoin(destRoot, TrimSlash(step.Mountpoint))
                        ELSE destRoot
             args == <<Flag("rsync"), Flag("-aAXH"), Flag("--numeric-ids"), Flag("--whole-file")>>
                     \o DeleteArgs(deleteFlag)
                     \o ExcludeArgs("--exclude", extraExcludes)
                     \o ExcludeArgs("--exclude-from", extraExcludeFrom)
                     \o (IF step.Mountpoint = RootPath
                         THEN <<Flag("--one-file-system")>>
                              \o ExcludeArgs("--exclude", RootExcludes(destRoot))
                         ELSE <<>>)
             srcArg == IF step.Mountpoint = RootPath THEN srcPath ELSE srcPath \o <<"/">>
         IN  [err |-> FALSE, cmd |-> args \o <<srcArg, dstPath \o <<"/">>>>]

(***************************************************************************)
(* runParallelRootSync: the argument vectors of the five rsync jobs        *)
(***************************************************************************)
Subtrees == <<"usr", "var", "home", "opt">>
JobNames == Subtrees \o <<"rest">>
Jobs == {JobNames[i] : i \in 1..Len(JobNames)}

SubtreeSrc(name) == <<"/", name, "/">>
SubtreeDst(destRoot, name) == PathJoin(destRoot, <<name>>) \o <<"/">>

\* Which runner flag decides --delete for the root sync.
RootDeleteFlag(r) == r.DeleteDest

RootBaseCmd(r) ==
    BuildSyncCommand([Operation |-> "sync-filesystem", Mountpoint |-> RootPath],
                     r.DestRoot, r.ExcludePatterns, r.ExcludeFromFiles, RootDeleteFlag(r))

\* args := parts[1 : len(parts)-2], then --exclude <subtree>/ for every subtree
RootSharedArgs(r) ==
    LET parts == RootBaseCmd(r).cmd
    IN  SubSeq(parts, 2, Len(parts) - 2)
        \o ExcludeArgs("--exclude", [i \in 1..Len(Subtrees) |-> SubtreeSrc(Subtrees[i])])

\* The argv (after "rsync") of job name, for destination directory destRoot.
JobArgs(r, destRoot, name) ==
    IF name = "rest"
    THEN RootSharedArgs(r) \o <<RootPath, destRoot \o <<"/">>>>
    ELSE RootSharedArgs(r) \o <<SubtreeSrc(name), SubtreeDst(destRoot, name)>>

HasField(args, f) == \E i \in 1..Len(args) : args[i] = f

(***************************************************************************)
(* Planner, step builder and safety check                                  *)
(***************************************************************************)
Part(i, dev, mp, act) == [Index |-> i, Device |-> dev, Mountpoint |-> mp, Action |-> act]

\* an index that is never read from the device name
partitionIndexUnknown(dev) == 0

partitionIndexFromDevice(dev) ==
    LET name == TrimPrefix(dev, DevPrefix)
        idx == LastIndex(name, "p")
        digits == SubSeq(name, Len(TrimTrailingDigits(name)) + 1, Len(name))
    IN  IF name = <<>> THEN 0
        ELSE IF idx # 0 /\ idx < Len(name) /\ AtoiOk(SubSeq(name, idx + 1, Len(name)))
        THEN AtoiVal(SubSeq(name, idx + 1, Len(name)))
        ELSE IF digits = <<>> THEN 0
        ELSE AtoiVal(digits)

\* the loop over the probed partitions: index from the device name, else the
\* 1-based position
PlanParts(parts) ==
    [i \in 1..Len(parts) |->
        LET n == IF parts[i].Device # EmptyStr
                 THEN partitionIndexFromDevice(parts[i].Device) ELSE 0
        IN  Part(IF n > 0 THEN n ELSE i, parts[i].Device, parts[i].Mountpoint, "sync")]

\* a planner without the fallback
StubNone == <<>>

StubParts == <<Part(1, EmptyStr, EmptyStr, "sync"), Part(2, EmptyStr, EmptyStr, "sync")>>

\* strings.Fields of one output line, kept as its columns: a column that is
\* empty leaves no field
Fields(line) == SelectSeq(line, LAMBDA f : f # <<>>)

Dash == <<"-">>
TypPart == <<"part">>
TypDisk == <<"disk">>

\* the partitions that the lines of `lsblk -nr -o NAME,MOUNTPOINT,TYPE` give
\* for disk
allPartitionsIncludingUnmounted(disk, out) ==
    LET base == TrimPrefix(baseDiskFromDevice(disk), DevPrefix)
        keep(line) == /\ Len(Fields(line)) >= 3
                      /\ Fields(line)[3] = TypPart
                      /\ HasPrefix(Fields(line)[1], base)
        kept == SelectSeq(out, keep)
    IN  [i \in 1..Len(kept) |->
            [Device |-> DevPrefix \o Fields(kept[i])[1],
             Mountpoint |-> IF Fields(kept[i])[2] = Dash THEN EmptyStr ELSE Fields(kept[i])[2]]]

\* strings.TrimSpace of a mount-dirs entry: blanks around the path go
Blank == " "
RECURSIVE TrimLeft(_)
TrimLeft(m) == IF m # <<>> /\ Head(m) = Blank THEN TrimLeft(Tail(m)) ELSE m
RECURSIVE TrimRight(_)
TrimRight(m) ==
    IF m # <<>> /\ m[Len(m)] = Blank THEN TrimRight(SubSeq(m, 1, Len(m) - 1)) ELSE m
TrimSpace(m) == TrimRight(TrimLeft(m))

\* a filter that never drops a partition
FilterKeepsAll(planParts, dirs) == planParts

\* keep root and the mountpoints listed in dirs; keep everything if nothing
\* would be left
FilterMountDirs(planParts, dirs) ==
    LET listed(mp) == \E k \in 1..Len(dirs) : TrimSpace(dirs[k]) = mp
        selected == SelectSeq(planParts, LAMBDA pp : pp.Mountpoint = RootPath \/ listed(pp.Mountpoint))
    IN  IF Len(dirs) > 0 /\ Len(selected) > 0 THEN selected ELSE planParts

\* the largest index among all partitions
LastIndexOfAny(parts) ==
    LET S == {parts[i].Index : i \in 1..Len(parts)} \cup {0}
    IN  CHOOSE m \in S : \A x \in S : x <= m

InitAction(strategy) ==
    "initialize+sync[" \o (IF strategy = "" THEN "clone-table" ELSE strategy) \o "]"

\* force-two-partitions that spares partition 2 as well
MarkActionsFromTwo(planParts, opts) ==
    IF ~opts.Initialize THEN planParts
    ELSE [i \in 1..Len(planParts) |->
            IF opts.ForceTwoPartitions /\ planParts[i].Index >= 2
            THEN [planParts[i] EXCEPT !.Action = "sync"]
            ELSE [planParts[i] EXCEPT !.Action = InitAction(opts.PartitionStrategy)]]

MarkActions(planParts, opts) ==
    IF ~opts.Initialize THEN planParts
    ELSE [i \in 1..Len(planParts) |->
            IF opts.ForceTwoPartitions /\ planParts[i].Index > 2
            THEN [planParts[i] EXCEPT !.Action = "sync"]
            ELSE [planParts[i] EXCEPT !.Action = InitAction(opts.PartitionStrategy)]]

\* Result: [err |-> BOOLEAN, plan |-> PlanResult].  sys holds what the probes
\* answer: BootDisk, BootErr, Mounted, MountedErr, AllParts.
PlanWithSystem(sys, opts) ==
    LET srcDisk == baseDiskFromDevice(sys.BootDisk)
        parts == sys.Mounted \o (IF opts.AllSync THEN sys.AllParts ELSE <<>>)
        probed == PlanParts(parts)
        planParts == IF Len(probed) = 0 THEN StubParts ELSE probed
    IN  IF opts.Destination = EmptyStr \/ sys.BootErr \/ sys.MountedErr
        THEN [err |-> TRUE, plan |-> [SourceDisk |-> EmptyStr, DestinationDisk |-> EmptyStr,
                                      Partitions |-> <<>>]]
        ELSE [err |-> FALSE,
              plan |-> [SourceDisk |-> srcDisk, DestinationDisk |-> opts.Destination,
                        Partitions |-> MarkActions(FilterMountDirs(planParts, opts.MountDirs), opts)]]

Step(o, src, dst, idx, mp) ==
    [Operation |-> o, SourceDevice |-> src, DestinationDisk |-> dst,
     PartitionIndex |-> idx, Mountpoint |-> mp, SizeBytes |-> 0]

NeedsInit(part) == part.Action # "" /\ part.Action # "sync"

\* steps that take the plan's source disk for their destination
PartStepsOnSource(plan, opts, part) ==
    <<Step("sync-filesystem", opts.Destination, plan.SourceDisk, part.Index, part.Mountpoint)>>

\* the steps of one plan partition
PartSteps(plan, opts, part) ==
    LET src == IF part.Device = EmptyStr THEN plan.SourceDisk ELSE part.Device
    IN  (IF NeedsInit(part)
         THEN <<Step("initialize-partition", src, opts.Destination, part.Index, part.Mountpoint)>>
         ELSE <<>>)
        \o <<Step("sync-filesystem", src, opts.Destination, part.Index, part.Mountpoint)>>

RECURSIVE AllPartSteps(_, _, _)
AllPartSteps(plan, opts, parts) ==
    IF parts = <<>> THEN <<>>
    ELSE PartSteps(plan, opts, Head(parts)) \o AllPartSteps(plan, opts, Tail(parts))

\* the largest index among the partitions that are initialised, 0 if none
LastInitIndex(parts) ==
    LET S == {parts[i].Index : i \in {k \in 1..Len(parts) : NeedsInit(parts[k])}} \cup {0}
    IN  CHOOSE m \in S : \A x \in S : x <= m

BuildExecutionSteps(plan, opts) ==
    (IF opts.Initialize
     THEN <<Step("prepare-disk", plan.SourceDisk, opts.Destination, 0, EmptyStr)>>
     ELSE <<>>)
    \o AllPartSteps(plan, opts, plan.Partitions)
    \o (IF opts.Initialize /\ opts.ExpandLastPartition /\ LastInitIndex(plan.Partitions) > 0
        THEN <<Step("grow-partition", EmptyStr, opts.Destination,
                    LastInitIndex(plan.Partitions), EmptyStr)>>
        ELSE <<>>)

\* a safety check that does not compare the destination with the source
ValidateCloneSafetyNoSameDisk(plan, opts, env) ==
    IF looksLikePartition(ensureDevPrefix(opts.Destination)) THEN "partition"
    ELSE IF ~env.exists THEN "missing"
    ELSE IF env.mounted THEN "mounted"
    ELSE IF env.partsMounted THEN "parts-mounted"
    ELSE ""

\* Result: "" when the clone may proceed, else the check that refused it.
\* env holds what the probes of the destination answer.
ValidateCloneSafety(plan, opts, env) ==
    LET srcDisk == plan.SourceDisk
        dstDisk == ensureDevPrefix(opts.Destination)
    IN  IF sameDisk(srcDisk, dstDisk) THEN "same-disk"
        ELSE IF looksLikePartition(dstDisk) THEN "partition"
        ELSE IF ~env.exists THEN "missing"
        ELSE IF env.srcSize > 0 /\ env.dstSize > 0 /\ env.dstSize < env.srcSize /\ ~opts.ForceSync
        THEN "smaller"
        ELSE IF env.mounted THEN "mounted"
        ELSE IF env.partsMounted THEN "parts-mounted"
        ELSE ""

NewCommandRunner(destRoot, strategy, excludePatterns, excludeFromFiles, destDisk, deleteDest, deleteRoot) ==
    [DestRoot |-> destRoot, PartitionStrategy |-> strategy,
     ExcludePatterns |-> excludePatterns, ExcludeFromFiles |-> excludeFromFiles,
     DestDisk |-> ensureDevPrefix(destDisk), DeleteDest |-> deleteDest, DeleteRoot |-> deleteRoot]

\* a Run without the bound-destination check
RunRefusesNever(r, step) == FALSE

\* CommandRunner.Run refuses the step before doing anything
RunRefuses(r, step) ==
    /\ step.DestinationDisk # EmptyStr
    /\ r.DestDisk # EmptyStr
    /\ ensureDevPrefix(step.DestinationDisk) # r.DestDisk

KnownOperations ==
    {"prepare-disk", "grow-partition", "initialize-partition", "sync-filesystem", "resize-p1"}

(***************************************************************************)
(* The command-line run: prerequisites, plan, safety check, confirmation,  *)
(* Apply, AdjustSystem, VerifyClone, with the state log                    *)
(***************************************************************************)
VARIABLES
    hw,        \* the disks behind the names: hw.bootOn, hw.destOn
    sys,       \* what the probes of the running system answer
    opts,      \* the parsed command-line options
    pc,        \* position of the run
    plan,      \* the PlanResult
    steps,     \* BuildExecutionSteps(plan, planOpts) as computed by run
    stateLog,  \* entries appended to the state log
    handed,    \* the steps Apply gave to runner.Run, in order
    results,   \* what runner.Run returned for each of them
    runErr,    \* the error the run returned
    safe,      \* what ValidateCloneSafety returned to run: "unknown", "" or the refusal
    answer     \* the final confirmation: "none", "waived", "yes", "no", "error"


VARIABLES
    op,        \* operation under way: "run", "sync", "adjust", "verify", "none"
    rn,        \* the CommandRunner
    rkind,     \* the Runner implementation: "command" or "noop"
    rbound,    \* the destination the runner was constructed for
    st,        \* the ExecutionStep given to runSyncFilesystem
    mplan,     \* plan.Partitions given to AdjustSystem / VerifyClone
    mopts,     \* the options and destRoot given to AdjustSystem / VerifyClone
    spc,       \* position of the calling goroutine
    mounts,    \* mount table: the directories mounted, in mount order
    made,      \* the directories this operation mounted
    defers,    \* deferred umounts, next to run first
    ret,       \* value returned: "none", "ok", "err"
    tempSrc,   \* scratch directory holding the read-only source mount, or ""
    rsyncCmds, \* argument vectors of the rsync commands built
    jstate,    \* per root-sync job: new, start, running, exited, sent, done
    jres,      \* per job: the value the goroutine sends on errCh
    sem,       \* tokens held in the semaphore channel
    errCh,     \* buffered results not yet received
    recvd,     \* results received by the collector loop
    seen,      \* non-zero exit statuses the rsync children ended with so far
    cmdlog,    \* commands the calling goroutine executed, in order
    failed     \* commands and checks of grow-partition, AdjustSystem and VerifyClone
               \* that failed, in order

syncVars == <<op, rn, rkind, rbound, st, mplan, mopts, spc, mounts, made, defers, ret, tempSrc,
              rsyncCmds, jstate, jres, sem, errCh, recvd, seen, cmdlog, failed>>

jobVars == <<jstate, jres, sem, errCh, recvd, seen>>

VARIABLES
    pth,       \* a path of the source system: [p |-> components, dir |-> BOOLEAN]
    fsMounts,  \* directories of the source on which another filesystem is mounted
    pjobs,     \* root-sync jobs whose rsync has gone over the path
    pcopied,   \* those of them that copied it
    psingle    \* what one rsync of / does with it: "unknown", "copied", "skipped"

pathVars == <<pth, fsMounts, pjobs, pcopied, psingle>>

VARIABLES
    fn,        \* the device-name function under evaluation, "none" when there is none
    arg,       \* its arguments
    val,       \* what it returned
    probe      \* what the probes of ValidateCloneSafety printed

devVars == <<fn, arg, val, probe>>

VARIABLES
    logFile,   \* the lines of the state file
    logPrev,   \* its lines before the last call of AppendStateLog
    logCalls   \* the number of calls so far

logVars == <<logFile, logPrev, logCalls>>

runVars == <<hw, sys, opts, pc, plan, steps, stateLog, handed, results, runErr, safe, answer>>

vars == <<runVars, syncVars, pathVars, devVars, logVars>>

Err(kind, o, dst, idx) == [kind |-> kind, op |-> o, dest |-> dst, part |-> idx]
NoErr == Err("", "", EmptyStr, 0)
NoPlan == [SourceDisk |-> EmptyStr, DestinationDisk |-> EmptyStr, Partitions |-> <<>>]

\* the PlanOptions run builds from the command-line options
PlanOptsOf(o) ==
    [Destination |-> o.Destination, Initialize |-> o.Initialize,
     ForceTwoPartitions |-> o.ForceTwoPartitions,
     ExpandLastPartition |-> o.ExpandLastPartition, DeleteDest |-> o.DeleteDest,
     ForceSync |-> FALSE, AllSync |-> FALSE, MountDirs |-> <<>>,
     Quiet |-> o.Quiet, Unattended |-> o.Unattended, UnattendedInit |-> o.UnattendedInit,
     PartitionStrategy |-> o.PartitionStrategy, ExcludePatterns |-> o.ExcludePatterns,
     ExcludeFromFiles |-> o.ExcludeFromFiles, Hostname |-> o.Hostname]

\* the runner run constructs (the call gives no delete flags)
RunnerOf(o) ==
    NewCommandRunner(o.DestRoot, o.PartitionStrategy, o.ExcludePatterns,
                     o.ExcludeFromFiles, o.Destination, FALSE, FALSE)

askConfirm(o) ==
    IF o.Quiet THEN FALSE
    ELSE IF o.AutoApprove THEN FALSE
    ELSE IF o.UnattendedInit /\ o.Initialize THEN FALSE
    ELSE IF o.Unattended /\ ~o.Initialize THEN FALSE
    ELSE TRUE

LogEntry(phase, e) == [phase |-> phase, err |-> e]

\* a run that writes no PLAN entry
PlanEntriesNone == <<>>

\* what run appends to the state log once the plan and its steps are built
PlanEntries == <<LogEntry("PLAN", NoErr)>>

\* a run that returns a failure without logging it
TerminalEntriesSilent(e) ==
    IF e = NoErr THEN <<LogEntry("APPLY_SUCCESS", NoErr)>> ELSE <<>>

\* a run that, after logging a failure, goes on to log the success as well
TerminalEntriesBoth(e) ==
    IF e = NoErr THEN <<LogEntry("APPLY_SUCCESS", NoErr)>>
    ELSE <<LogEntry("APPLY_FAILED", e), LogEntry("APPLY_SUCCESS", NoErr)>>

\* what run appends to the state log when Apply, AdjustSystem or VerifyClone
\* has ended the run with e
TerminalEntries(e) ==
    IF e = NoErr THEN <<LogEntry("APPLY_SUCCESS", NoErr)>>
    ELSE <<LogEntry("APPLY_FAILED", e)>>

\* The error Apply returns for a step whose Run failed.
ApplyError(step) == Err("apply", step.Operation, step.DestinationDisk, step.PartitionIndex)

\* an Apply that goes on after a failed step
ApplyNeverStops(res) == FALSE

\* Whether Apply leaves its loop on the result of a Run.
ApplyStops(res) == res = "err"

Finish(e) == runErr' = e /\ pc' = "done"

CheckPrerequisites ==
    /\ UNCHANGED <<syncVars, pathVars, devVars, logVars>>
    /\ pc = "start"
    /\ \E ok \in BOOLEAN :
         IF ok THEN pc' = "plan" /\ runErr' = runErr
         ELSE Finish(Err("prerequisites", "", EmptyStr, 0))
    /\ UNCHANGED <<hw, sys, opts, plan, steps, stateLog, handed, results, safe, answer>>

\* Plan, BuildExecutionSteps and the PLAN entry of the state log
DoPlan ==
    /\ UNCHANGED <<syncVars, pathVars, devVars, logVars>>
    /\ pc = "plan"
    /\ LET r == PlanWithSystem(sys, PlanOptsOf(opts))
       IN  IF r.err
           THEN Finish(Err("plan", "", EmptyStr, 0)) /\ UNCHANGED <<plan, steps, stateLog>>
           ELSE /\ plan' = r.plan
                /\ steps' = BuildExecutionSteps(r.plan, PlanOptsOf(opts))
                /\ stateLog' = stateLog \o PlanEntries
                /\ pc' = "safety" /\ runErr' = runErr
    /\ UNCHANGED <<hw, sys, opts, handed, results, safe, answer>>

DiskSizes == {0, 8, 16}
SafetyEnvs ==
    [exists : BOOLEAN, srcSize : DiskSizes, dstSize : DiskSizes,
     mounted : BOOLEAN, partsMounted : BOOLEAN]

DoSafety ==
    /\ UNCHANGED <<syncVars, pathVars, devVars, logVars>>
    /\ pc = "safety"
    /\ \E env \in SafetyEnvs :
         LET v == ValidateCloneSafety(plan, PlanOptsOf(opts), env)
         IN  /\ safe' = v
             /\ IF v # "" THEN Finish(Err("safety", v, EmptyStr, 0))
                ELSE pc' = "confirm" /\ runErr' = runErr
    /\ UNCHANGED <<hw, sys, opts, plan, steps, stateLog, handed, results, answer>>

\* a confirmation that goes on whatever the user answered
ConfirmAllowsAny(a) == TRUE

\* ui.Confirm returned ok
ConfirmAllows(a) == a = "yes"

DoConfirm ==
    /\ UNCHANGED <<syncVars, pathVars, devVars, logVars>>
    /\ pc = "confirm"
    /\ IF askConfirm(opts)
       THEN \E a \in {"yes", "no", "error"} :
              /\ answer' = a
              /\ IF a = "error" THEN Finish(Err("confirm", "", EmptyStr, 0))
                 ELSE IF ConfirmAllows(a) THEN pc' = "apply" /\ runErr' = runErr
                 ELSE Finish(Err("cancelled", "", EmptyStr, 0))
       ELSE answer' = "waived" /\ pc' = "apply" /\ runErr' = runErr
    /\ UNCHANGED <<hw, sys, opts, plan, steps, stateLog, handed, results, safe>>

\* What runner.Run returns for a step, fail telling whether a command of the
\* step fails.
RunResult(r, step, fail) ==
    IF RunRefuses(r, step) THEN "err"
    ELSE IF step.Operation \notin KnownOperations THEN "ok"
    ELSE IF fail THEN "err" ELSE "ok"

\* one iteration of the loop of Apply
ApplyStep ==
    /\ UNCHANGED <<syncVars, pathVars, devVars, logVars>>
    /\ pc = "apply"
    /\ LET all == BuildExecutionSteps(plan, PlanOptsOf(opts))
       IN  /\ Len(handed) < Len(all)
           /\ \E fail \in BOOLEAN :
                LET step == all[Len(handed) + 1]
                    res == RunResult(RunnerOf(opts), step, fail)
                IN  /\ handed' = Append(handed, step)
                    /\ results' = Append(results, res)
                    /\ IF ApplyStops(res)
                       THEN /\ Finish(ApplyError(step))
                            /\ stateLog' = stateLog \o TerminalEntries(ApplyError(step))
                       ELSE UNCHANGED <<pc, runErr, stateLog>>
    /\ UNCHANGED <<hw, sys, opts, plan, steps, safe, answer>>

\* Apply returns nil
ApplyDone ==
    /\ UNCHANGED <<syncVars, pathVars, devVars, logVars>>
    /\ pc = "apply"
    /\ Len(handed) = Len(BuildExecutionSteps(plan, PlanOptsOf(opts)))
    /\ pc' = "adjust"
    /\ UNCHANGED <<hw, sys, opts, plan, steps, stateLog, handed, results, runErr, safe, answer>>

DoAdjust ==
    /\ UNCHANGED <<syncVars, pathVars, devVars, logVars>>
    /\ pc = "adjust"
    /\ \E ok \in BOOLEAN :
         IF ok THEN UNCHANGED <<runErr, stateLog>> /\ pc' = "verify"
         ELSE /\ Finish(Err("adjust", "", EmptyStr, 0))
              /\ stateLog' = stateLog \o TerminalEntries(Err("adjust", "", EmptyStr, 0))
    /\ UNCHANGED <<hw, sys, opts, plan, steps, handed, results, safe, answer>>

DoVerify ==
    /\ UNCHANGED <<syncVars, pathVars, devVars, logVars>>
    /\ pc = "verify"
    /\ \E ok \in BOOLEAN :
         IF ok THEN /\ Finish(NoErr)
                    /\ stateLog' = stateLog \o TerminalEntries(NoErr)
         ELSE /\ Finish(Err("verify", "", EmptyStr, 0))
              /\ stateLog' = stateLog \o TerminalEntries(Err("verify", "", EmptyStr, 0))
    /\ UNCHANGED <<hw, sys, opts, plan, steps, handed, results, safe, answer>>

(***************************************************************************)
(* Inputs of the run                                                       *)
(***************************************************************************)
\* highest partition number a destination is written with
MaxDestPart == 1

NameNvme1n1 == StrNvme \o <<"1", "n", "1">>
NoDisk == <<"?">>

\* The disks of the three families and the separator their partition names
\* take before the number.
PartSep(disk) == IF disk \in {NameSda, NameSdb} THEN <<>> ELSE <<"p">>
AllDisks == {NameSda, NameSdb, NameMmc0, NameMmc1, NameNvme0n1, NameNvme1n1}
BootDisks == {NameSda, NameMmc0, NameNvme0n1}
PartName(disk, n) == disk \o PartSep(disk) \o Itoa(n)

\* what the probes answer on a machine booted from partition 2 of disk
SysOf(disk, listed) ==
    [BootDisk |-> IF disk = NoDisk THEN BootedDisk ELSE DevPrefix \o PartName(disk, 2),
     BootErr |-> FALSE, MountedErr |-> FALSE,
     Mounted |-> IF listed /\ disk # NoDisk
                 THEN << [Device |-> DevPrefix \o PartName(disk, 1), Mountpoint |-> BootPath],
                         [Device |-> DevPrefix \o PartName(disk, 2), Mountpoint |-> RootPath] >>
                 ELSE <<>>,
     AllParts |-> <<>>]

\* the ways a destination on disk can be written on the command line
DestForms(disk) ==
    {disk, DevPrefix \o disk}
        \cup UNION {{PartName(disk, n), DevPrefix \o PartName(disk, n)} : n \in 1..MaxDestPart}

ModeFlags ==
    { [Initialize |-> FALSE, ExpandLastPartition |-> FALSE],
      [Initialize |-> TRUE, ExpandLastPartition |-> FALSE],
      [Initialize |-> TRUE, ExpandLastPartition |-> TRUE] }

Confirm(q, a, u, ui) == [Quiet |-> q, AutoApprove |-> a, Unattended |-> u, UnattendedInit |-> ui]
ConfirmFlags ==
    { Confirm(FALSE, FALSE, FALSE, FALSE), Confirm(TRUE, FALSE, FALSE, FALSE),
      Confirm(FALSE, TRUE, FALSE, FALSE), Confirm(FALSE, FALSE, TRUE, FALSE),
      Confirm(FALSE, FALSE, FALSE, TRUE), Confirm(FALSE, FALSE, TRUE, TRUE) }

CliOptions(dest, m, c) ==
    [Destination |-> dest, DestRoot |-> DefaultDestRoot,
     Initialize |-> m.Initialize, ExpandLastPartition |-> m.ExpandLastPartition,
     ForceTwoPartitions |-> FALSE, DeleteDest |-> FALSE,
     Quiet |-> c.Quiet, AutoApprove |-> c.AutoApprove,
     Unattended |-> c.Unattended, UnattendedInit |-> c.UnattendedInit,
     PartitionStrategy |-> "", ExcludePatterns |-> <<>>, ExcludeFromFiles |-> <<>>,
     Hostname |-> EmptyStr]

NoSys == [BootDisk |-> EmptyStr, BootErr |-> FALSE, MountedErr |-> FALSE,
          Mounted |-> <<>>, AllParts |-> <<>>]
NoCli == CliOptions(EmptyStr, [Initialize |-> FALSE, ExpandLastPartition |-> FALSE],
                    Confirm(FALSE, FALSE, FALSE, FALSE))

InitRunCommon ==
    /\ plan = NoPlan /\ steps = <<>> /\ stateLog = <<>>
    /\ handed = <<>> /\ results = <<>> /\ runErr = NoErr
    /\ safe = "unknown" /\ answer = "none"

InitPathIdle ==
    /\ pth = [p |-> <<>>, dir |-> TRUE] /\ fsMounts = {}
    /\ pjobs = {} /\ pcopied = {} /\ psingle = "unknown"

NoVal == [none |-> TRUE]

InitLogIdle == logFile = <<>> /\ logPrev = <<>> /\ logCalls = 0

InitDevIdle == fn = "none" /\ arg = <<>> /\ val = NoVal /\ probe = NoVal /\ InitLogIdle

InitRunIdle ==
    /\ InitRunCommon
    /\ pc = "idle" /\ hw = [bootOn |-> NoDisk, destOn |-> NoDisk] /\ sys = NoSys /\ opts = NoCli

(***************************************************************************)
(* Mount discipline of runSyncFilesystem (with runParallelRootSync),       *)
(* AdjustSystem and VerifyClone                                            *)
(***************************************************************************)
\* a semaphore with one slot per subtree job
SemCapPerSubtree == Len(Subtrees)

\* capacity of sem: "at most 2 rsyncs in parallel"
SemCap == 2
PartialTransfer == 23
ExitStatuses == {0, 1, 23, 24}
\* an errCh that holds the first result only
ErrChCapFirstOnly == Len(<<"first">>)

\* capacity of errCh: len(cmds)+1
ErrChCap == Len(Subtrees) + 1

Cmd(c, a) == [c |-> c, a |-> a]

\* a runCmd that also lets status 24 (vanished source files) pass
JobResultLenient(s) == IF s \in {0, 23, 24} THEN "nil" ELSE "err"

\* What runCmd sends on errCh for a child that ended with status s.
JobResult(s) ==
    IF s = 0 THEN "nil"
    ELSE IF s = PartialTransfer THEN "nil"
    ELSE "err"

SyncDestPath(r, step) ==
    IF step.Mountpoint # RootPath
    THEN PathJoin(r.DestRoot, TrimSlash(step.Mountpoint))
    ELSE r.DestRoot

\* The directory a built rsync command writes into: its last field without
\* the trailing "/".
CmdDstDir(args) == LET d == args[Len(args)] IN SubSeq(d, 1, Len(d) - 1)

\* umount fails with EBUSY while a child started by this run still works
\* under the directory, or while another mount sits beneath it.
Busy(d) ==
    \/ \E j \in Jobs : jstate[j] = "running" /\ Under(CmdDstDir(JobArgs(rn, SyncDestPath(rn, st), j)), d)
    \/ \E i \in 1..Len(mounts) : mounts[i] # d /\ Under(mounts[i], d)

RemoveMount(ms, d) == SelectSeq(ms, LAMBDA m : m # d)

Return(v) == ret' = v /\ spc' = "defer"

(***************************************************************************)
(* Runner.Run: NoopRunner, and CommandRunner with its operations           *)
(***************************************************************************)
MiB == 1048576
FsExt4 == <<"e", "x", "t", "4">>
FsVfat == <<"v", "f", "a", "t">>
FsFat32 == <<"f", "a", "t", "3", "2">>
FsSwap == <<"s", "w", "a", "p">>
FsNtfs == <<"n", "t", "f", "s">>

Done(res, cmds) == [res |-> res, cmds |-> cmds]

\* a table command whose boot size is rounded down to whole MiB
BuildPartitionCommandFloor(step, strategy) ==
    LET target == ensureDevPrefix(step.DestinationDisk)
        sizeBytes == IF step.SizeBytes <= 0 THEN 256 * MiB ELSE step.SizeBytes
    IN  [err |-> FALSE, cmd |-> Cmd("sfdisk label: dos", <<target, Itoa(sizeBytes \div MiB) \o <<"M">>>>)]

\* Result: [err |-> BOOLEAN, cmd |-> the command]
BuildPartitionCommand(step, strategy) ==
    LET src == ensureDevPrefix(step.SourceDevice)
        target == ensureDevPrefix(step.DestinationDisk)
        sizeBytes == IF step.SizeBytes <= 0 THEN 256 * MiB ELSE step.SizeBytes
        sizeMB == (sizeBytes + MiB - 1) \div MiB
    IN  IF step.Operation # "prepare-disk" \/ step.DestinationDisk = EmptyStr
        THEN [err |-> TRUE, cmd |-> Cmd("", <<>>)]
        ELSE IF strategy \in {"", "clone-table"}
        THEN [err |-> FALSE, cmd |-> Cmd("sfdisk -d | sfdisk", <<src, target>>)]
        ELSE IF strategy = "new-layout"
        THEN [err |-> FALSE, cmd |-> Cmd("sfdisk label: dos", <<target, Itoa(sizeMB) \o <<"M">>>>)]
        ELSE IF strategy = "new-layout-gpt"
        THEN [err |-> FALSE,
              cmd |-> Cmd("parted mklabel gpt", <<target, Itoa(sizeMB) \o <<"M", "i", "B">>,
                                                   Itoa(sizeMB + 1) \o <<"M", "i", "B">>>>)]
        ELSE [err |-> TRUE, cmd |-> Cmd("", <<>>)]

\* fails: the parted command fails
runResizeP1(step, fails) ==
    LET cmd == Cmd("parted resizepart 1", <<ensureDevPrefix(step.DestinationDisk), Itoa(step.SizeBytes)>>)
    IN  IF step.SizeBytes <= 0 THEN Done("err", <<>>)
        ELSE IF fails THEN Done("err", <<cmd>>)
        ELSE Done("ok", <<cmd>>)

\* a prepare-disk that leaves partition 1 as the table command made it
runPrepareDiskTableOnly(r, step, failAt) ==
    LET built == BuildPartitionCommand(step, r.PartitionStrategy)
    IN  IF built.err THEN Done("err", <<>>)
        ELSE Done(IF failAt = 1 THEN "err" ELSE "ok", <<built.cmd>>)

\* failAt: 0 when no command fails, else the command that fails
\* (1 the partition-table command, 2 the resize of partition 1)
runPrepareDisk(r, step, failAt) ==
    LET built == BuildPartitionCommand(step, r.PartitionStrategy)
    IN  IF built.err THEN Done("err", <<>>)
        ELSE IF failAt = 1 THEN Done("err", <<built.cmd>>)
        ELSE IF step.SizeBytes > 0
        THEN LET rz == runResizeP1(step, failAt = 2)
             IN  Done(rz.res, <<built.cmd>> \o rz.cmds)
        ELSE Done("ok", <<built.cmd>>)

\* a grow-partition that stops when e2fsck fails
runGrowPartitionStrict(step, failAt) ==
    LET disk == ensureDevPrefix(step.DestinationDisk)
        part == partitionDevice(step.DestinationDisk, step.PartitionIndex)
        parted == Cmd("parted resizepart 100%", <<disk, Itoa(step.PartitionIndex)>>)
        e2fsck == Cmd("e2fsck -f -p", <<part>>)
        resize2fs == Cmd("resize2fs", <<part>>)
    IN  IF step.DestinationDisk = EmptyStr \/ step.PartitionIndex <= 0 THEN Done("err", <<>>)
        ELSE IF failAt = 1 THEN Done("err", <<parted>>)
        ELSE IF failAt = 2 THEN Done("err", <<parted, e2fsck>>)
        ELSE IF failAt = 3 THEN Done("err", <<parted, e2fsck, resize2fs>>)
        ELSE Done("ok", <<parted, e2fsck, resize2fs>>)

\* failAt: 0 none, 1 parted, 2 e2fsck (ignored), 3 resize2fs
runGrowPartition(step, failAt) ==
    LET disk == ensureDevPrefix(step.DestinationDisk)
        part == partitionDevice(step.DestinationDisk, step.PartitionIndex)
        parted == Cmd("parted resizepart 100%", <<disk, Itoa(step.PartitionIndex)>>)
        e2fsck == Cmd("e2fsck -f -p", <<part>>)
        resize2fs == Cmd("resize2fs", <<part>>)
    IN  IF step.DestinationDisk = EmptyStr \/ step.PartitionIndex <= 0 THEN Done("err", <<>>)
        ELSE IF failAt = 1 THEN Done("err", <<parted>>)
        ELSE IF failAt = 3 THEN Done("err", <<parted, e2fsck, resize2fs>>)
        ELSE Done("ok", <<parted, e2fsck, resize2fs>>)

\* fs: what lsblk answers (<<"!">> when it fails); fails: the mkfs command fails
runInitializePartition(step, fs, fails) ==
    LET lsblk == Cmd("lsblk -no FSTYPE", <<ensureDevPrefix(step.SourceDevice)>>)
        dstPart == partitionDevice(step.DestinationDisk, step.PartitionIndex)
        mk == IF HasPrefix(fs, <<"e", "x", "t">>) THEN "mkfs.ext4 -F"
              ELSE IF fs = FsVfat \/ HasPrefix(fs, <<"f", "a", "t">>) THEN "mkfs.vfat"
              ELSE IF fs = FsSwap THEN "mkswap"
              ELSE ""
    IN  IF step.SourceDevice = EmptyStr \/ step.DestinationDisk = EmptyStr \/ step.PartitionIndex <= 0
        THEN Done("err", <<>>)
        ELSE IF fs = <<"!">> \/ fs = EmptyStr \/ mk = "" THEN Done("err", <<lsblk>>)
        ELSE Done(IF fails THEN "err" ELSE "ok", <<lsblk, Cmd(mk, <<dstPart>>)>>)

\* the step reaches the switch of CommandRunner.Run
Dispatched(o) ==
    /\ op = "run" /\ spc = "entry" /\ rkind = "command"
    /\ ~RunRefuses(rn, st)
    /\ st.Operation = o

\* an operation of the runner that ran the commands of d and returned d.res
Ran(d) ==
    /\ ret' = d.res
    /\ cmdlog' = cmdlog \o d.cmds
    /\ spc' = "returned"
    /\ UNCHANGED <<op, rn, rkind, rbound, st, mplan, mopts, mounts, made, defers, tempSrc,
                   rsyncCmds, jobVars>>

\* NoopRunner.Run: logs the step
NoopRun ==
    /\ UNCHANGED <<runVars, pathVars, devVars, logVars, failed>>
    /\ op = "run" /\ spc = "entry" /\ rkind = "noop"
    /\ Ran(Done("ok", <<>>))

\* CommandRunner.Run refuses a step for another destination
RunRefused ==
    /\ UNCHANGED <<runVars, pathVars, devVars, logVars, failed>>
    /\ op = "run" /\ spc = "entry" /\ rkind = "command"
    /\ RunRefuses(rn, st)
    /\ Ran(Done("err", <<>>))

RunPrepareDisk ==
    /\ UNCHANGED <<runVars, pathVars, devVars, logVars, failed>>
    /\ Dispatched("prepare-disk")
    /\ \E failAt \in 0..2 : Ran(runPrepareDisk(rn, st, failAt))

RunGrowPartition ==
    /\ UNCHANGED <<runVars, pathVars, devVars, logVars>>
    /\ Dispatched("grow-partition")
    /\ \E failAt \in 0..3 :
         LET d == runGrowPartition(st, failAt)
         IN  /\ Ran(d)
             /\ failed' = IF failAt \in 1..Len(d.cmds) THEN <<d.cmds[failAt]>> ELSE <<>>

RunInitializePartition ==
    /\ UNCHANGED <<runVars, pathVars, devVars, logVars, failed>>
    /\ Dispatched("initialize-partition")
    /\ \E fs \in {FsExt4, FsVfat, FsFat32, FsSwap, FsNtfs, EmptyStr, <<"!">>}, fails \in BOOLEAN :
         Ran(runInitializePartition(st, fs, fails))

RunResizeP1 ==
    /\ UNCHANGED <<runVars, pathVars, devVars, logVars, failed>>
    /\ Dispatched("resize-p1")
    /\ \E fails \in BOOLEAN : Ran(runResizeP1(st, fails))

\* the switch enters runSyncFilesystem
RunSyncFilesystem ==
    /\ UNCHANGED <<runVars, pathVars, devVars, logVars, failed>>
    /\ Dispatched("sync-filesystem")
    /\ op' = "sync"
    /\ UNCHANGED <<rn, rkind, rbound, st, mplan, mopts, spc, mounts, made, defers, ret,
                   tempSrc, rsyncCmds, jobVars, cmdlog>>

\* a switch whose default case is an error
RunUnknownFails ==
    /\ UNCHANGED <<runVars, pathVars, devVars, logVars, failed>>
    /\ op = "run" /\ spc = "entry" /\ rkind = "command"
    /\ ~RunRefuses(rn, st)
    /\ st.Operation \notin KnownOperations
    /\ Ran(Done("err", <<>>))

\* an operation the switch does not know: logged and ignored
RunUnknown ==
    /\ UNCHANGED <<runVars, pathVars, devVars, logVars, failed>>
    /\ op = "run" /\ spc = "entry" /\ rkind = "command"
    /\ ~RunRefuses(rn, st)
    /\ st.Operation \notin KnownOperations
    /\ Ran(Done("ok", <<>>))

\* runSyncFilesystem up to and including the destination mount and df
SyncEnter ==
    /\ UNCHANGED <<runVars, pathVars, devVars, logVars, failed>>
    /\ op = "sync" /\ spc = "entry"
    /\ UNCHANGED <<op, rn, rkind, rbound, st, mplan, mopts, tempSrc, rsyncCmds, jobVars>>
    /\ LET destPath == SyncDestPath(rn, st)
           dstPart == partitionDevice(st.DestinationDisk, st.PartitionIndex)
           mountCmd == Cmd("mount", <<dstPart, destPath>>)
       IN  IF rn.DestRoot = EmptyStr \/ (st.Mountpoint = EmptyStr /\ st.SourceDevice = EmptyStr)
           THEN Return("err") /\ UNCHANGED <<mounts, made, defers, cmdlog>>
           ELSE \E mkdirOk, mountOk \in BOOLEAN :
                  IF ~mkdirOk
                  THEN Return("err") /\ UNCHANGED <<mounts, made, defers, cmdlog>>
                  ELSE IF ~mountOk
                  THEN /\ Return("err")
                       /\ cmdlog' = Append(cmdlog, mountCmd)
                       /\ UNCHANGED <<mounts, made, defers>>
                  ELSE /\ mounts' = Append(mounts, destPath)
                       /\ made' = made \cup {destPath}
                       /\ defers' = <<destPath>> \o defers
                       /\ cmdlog' = cmdlog \o <<mountCmd, Cmd("df", <<destPath>>)>>
                       /\ spc' = "source"
                       /\ ret' = ret

\* mount an unmounted source read-only on a scratch directory
SyncSource ==
    /\ UNCHANGED <<runVars, pathVars, devVars, logVars, failed>>
    /\ op = "sync" /\ spc = "source"
    /\ UNCHANGED <<op, rn, rkind, rbound, st, mplan, mopts, rsyncCmds, jobVars>>
    /\ IF st.Mountpoint = EmptyStr /\ st.SourceDevice # EmptyStr
       THEN \E tmpOk, mountOk \in BOOLEAN :
              LET mntCmd == Cmd("mount -o ro", <<ensureDevPrefix(st.SourceDevice), TempSrcDir>>)
              IN  IF ~tmpOk
                  THEN Return("err") /\ UNCHANGED <<mounts, made, defers, cmdlog, tempSrc>>
                  ELSE IF ~mountOk
                  THEN /\ Return("err")
                       /\ cmdlog' = Append(cmdlog, mntCmd)
                       /\ UNCHANGED <<mounts, made, defers, tempSrc>>
                  ELSE /\ mounts' = Append(mounts, TempSrcDir)
                       /\ made' = made \cup {TempSrcDir}
                       /\ defers' = <<TempSrcDir>> \o defers
                       /\ tempSrc' = TempSrcDir
                       /\ cmdlog' = Append(cmdlog, mntCmd)
                       /\ spc' = "sync"
                       /\ ret' = ret
       ELSE /\ spc' = "sync"
            /\ UNCHANGED <<mounts, made, defers, cmdlog, tempSrc, ret>>

\* Which runner flag decides --delete for a sync that is not the root sync.
NonRootDeleteFlag(r, step) ==
    IF step.Mountpoint = RootPath THEN r.DeleteRoot ELSE r.DeleteDest

\* the single rsync of a step that is not the root sync
SyncSingle ==
    /\ UNCHANGED <<runVars, pathVars, devVars, logVars, failed>>
    /\ op = "sync" /\ spc = "sync" /\ st.Mountpoint # RootPath
    /\ UNCHANGED <<op, rn, rkind, rbound, st, mplan, mopts, mounts, made, defers, tempSrc, jobVars>>
    /\ LET effectiveStep == IF tempSrc # EmptyStr THEN [st EXCEPT !.Mountpoint = tempSrc] ELSE st
           built == BuildSyncCommand(effectiveStep, rn.DestRoot, rn.ExcludePatterns,
                                     rn.ExcludeFromFiles, NonRootDeleteFlag(rn, st))
       IN  IF built.err
           THEN Return("err") /\ UNCHANGED <<rsyncCmds, cmdlog>>
           ELSE /\ rsyncCmds' = {Tail(built.cmd)}
                /\ \E s \in ExitStatuses :
                     IF s # 0
                     THEN Return("err") /\ cmdlog' = Append(cmdlog, Cmd("rsync", Tail(built.cmd)))
                     ELSE /\ Return("ok")
                          /\ cmdlog' = cmdlog \o <<Cmd("rsync", Tail(built.cmd)),
                                                   Cmd("df", <<SyncDestPath(rn, st)>>)>>

\* runParallelRootSync: build the five commands and the two channels
RootBuild ==
    /\ UNCHANGED <<runVars, pathVars, devVars, logVars, failed>>
    /\ op = "sync" /\ spc = "sync" /\ st.Mountpoint = RootPath
    /\ UNCHANGED <<op, rn, rkind, rbound, st, mplan, mopts, mounts, made, defers, tempSrc, jobVars, cmdlog>>
    /\ LET base == RootBaseCmd(rn)
       IN  IF base.err \/ Len(base.cmd) < 4
           THEN Return("err") /\ UNCHANGED rsyncCmds
           ELSE /\ rsyncCmds' = {JobArgs(rn, SyncDestPath(rn, st), j) : j \in Jobs}
                /\ spc' = "spawn"
                /\ ret' = ret

JobPos(j) == CHOOSE i \in 1..Len(JobNames) : JobNames[i] = j

\* go runCmd(c), in the order of the two loops
Spawn(j) ==
    /\ UNCHANGED <<runVars, pathVars, devVars, logVars, failed>>
    /\ op = "sync" /\ spc = "spawn" /\ jstate[j] = "new"
    /\ \A i \in 1..(JobPos(j) - 1) : jstate[JobNames[i]] # "new"
    /\ jstate' = [jstate EXCEPT ![j] = "start"]
    /\ spc' = IF JobPos(j) = Len(JobNames) THEN "collect" ELSE "spawn"
    /\ UNCHANGED <<op, rn, rkind, rbound, st, mplan, mopts, mounts, made, defers, ret, tempSrc,
                   rsyncCmds, jres, sem, errCh, recvd, seen, cmdlog>>

\* sem <- struct{}{} ; the child starts
Acquire(j) ==
    /\ UNCHANGED <<runVars, pathVars, devVars, logVars, failed>>
    /\ jstate[j] = "start" /\ sem < SemCap
    /\ sem' = sem + 1
    /\ jstate' = [jstate EXCEPT ![j] = "running"]
    /\ UNCHANGED <<op, rn, rkind, rbound, st, mplan, mopts, spc, mounts, made, defers, ret, tempSrc,
                   rsyncCmds, jres, errCh, recvd, seen, cmdlog>>

\* cmd.CombinedOutput() returns: the child ended with status s
ExitWith(j, s) ==
    /\ UNCHANGED <<runVars, pathVars, devVars, logVars, failed>>
    /\ jstate[j] = "running"
    /\ jres' = [jres EXCEPT ![j] = JobResult(s)]
    /\ seen' = IF s # 0 THEN seen \cup {s} ELSE seen
    /\ jstate' = [jstate EXCEPT ![j] = "exited"]
    /\ UNCHANGED <<op, rn, rkind, rbound, st, mplan, mopts, spc, mounts, made, defers, ret, tempSrc,
                   rsyncCmds, sem, errCh, recvd, cmdlog>>

Exit(j) == \E s \in ExitStatuses : ExitWith(j, s)

\* errCh <- result
Send(j) ==
    /\ UNCHANGED <<runVars, pathVars, devVars, logVars, failed>>
    /\ jstate[j] = "exited" /\ Len(errCh) < ErrChCap
    /\ errCh' = Append(errCh, jres[j])
    /\ jres' = [jres EXCEPT ![j] = "none"]
    /\ jstate' = [jstate EXCEPT ![j] = "sent"]
    /\ UNCHANGED <<op, rn, rkind, rbound, st, mplan, mopts, spc, mounts, made, defers, ret, tempSrc,
                   rsyncCmds, sem, recvd, seen, cmdlog>>

\* the deferred <-sem
Release(j) ==
    /\ UNCHANGED <<runVars, pathVars, devVars, logVars, failed>>
    /\ jstate[j] = "sent"
    /\ sem' = sem - 1
    /\ jstate' = [jstate EXCEPT ![j] = "done"]
    /\ UNCHANGED <<op, rn, rkind, rbound, st, mplan, mopts, spc, mounts, made, defers, ret, tempSrc,
                   rsyncCmds, jres, errCh, recvd, seen, cmdlog>>

\* Whether the collector loop leaves at once on receiving e.
CollectorStops(e) == e # "nil"

\* one iteration of the collector loop: e := <-errCh
Collect ==
    /\ UNCHANGED <<runVars, pathVars, devVars, logVars, failed>>
    /\ op = "sync" /\ spc = "collect" /\ errCh # <<>>
    /\ errCh' = Tail(errCh)
    /\ IF CollectorStops(Head(errCh))
       THEN Return("err") /\ UNCHANGED recvd
       ELSE /\ recvd' = recvd + 1
            /\ spc' = IF recvd + 1 = Len(JobNames) THEN "synced" ELSE "collect"
            /\ ret' = ret
    /\ UNCHANGED <<op, rn, rkind, rbound, st, mplan, mopts, mounts, made, defers, tempSrc,
                   rsyncCmds, jstate, jres, sem, seen, cmdlog>>

\* after a successful root sync: df, return nil
SyncFinish ==
    /\ UNCHANGED <<runVars, pathVars, devVars, logVars, failed>>
    /\ op = "sync" /\ spc = "synced"
    /\ Return("ok")
    /\ cmdlog' = Append(cmdlog, Cmd("df", <<SyncDestPath(rn, st)>>))
    /\ UNCHANGED <<op, rn, rkind, rbound, st, mplan, mopts, mounts, made, defers, tempSrc,
                   rsyncCmds, jobVars>>

\* the deferred umounts, one at a time, then the return to the caller
RunDefer ==
    /\ UNCHANGED <<runVars, pathVars, devVars, logVars, failed>>
    /\ spc = "defer"
    /\ UNCHANGED <<op, rn, rkind, rbound, st, mplan, mopts, made, ret, tempSrc, rsyncCmds, jobVars>>
    /\ IF defers = <<>>
       THEN spc' = "returned" /\ UNCHANGED <<mounts, defers, cmdlog>>
       ELSE LET d == Head(defers)
            IN  /\ defers' = Tail(defers)
                /\ cmdlog' = Append(cmdlog, Cmd("umount", <<d>>))
                /\ mounts' = IF Busy(d) THEN mounts ELSE RemoveMount(mounts, d)
                /\ spc' = spc

(***************************************************************************)
(* AdjustSystem and VerifyClone                                            *)
(***************************************************************************)
\* p.Index of the last partition whose mountpoint is in mps, -1 if none
IndexOfMount(parts, mps) ==
    LET S == {i \in 1..Len(parts) : parts[i].Mountpoint \in mps}
    IN  IF S = {} THEN -1
        ELSE parts[CHOOSE i \in S : \A k \in S : k <= i].Index

\* Mountpoint of the last partition whose mountpoint is in mps
MountOfLast(parts, mps) ==
    LET S == {i \in 1..Len(parts) : parts[i].Mountpoint \in mps}
    IN  IF S = {} THEN EmptyStr
        ELSE parts[CHOOSE i \in S : \A k \in S : k <= i].Mountpoint

AdjustBootMounts == {BootPath}
VerifyBootMounts == {BootPath, FirmwarePath}

\* Mounts shared by AdjustSystem and VerifyClone: root on destRoot, then the
\* boot partition beneath it; every successful mount defers its umount.
\* fail names the first step the environment lets fail.
MountRootAndBoot(rootIdx, bootIdx, bootDir, fail) ==
    LET destRoot == mopts.DestRoot
        rootCmd == Cmd("mount", <<partitionDevice(mopts.Destination, rootIdx), destRoot>>)
        bootCmd == Cmd("mount", <<partitionDevice(mopts.Destination, bootIdx), bootDir>>)
    IN  IF fail = "mkdir"
        THEN Return("err") /\ UNCHANGED <<mounts, made, defers, cmdlog>>
        ELSE IF fail = "mount"
        THEN /\ Return("err")
             /\ cmdlog' = Append(cmdlog, rootCmd)
             /\ UNCHANGED <<mounts, made, defers>>
        ELSE IF bootIdx = -1
        THEN /\ mounts' = Append(mounts, destRoot)
             /\ made' = made \cup {destRoot}
             /\ defers' = <<destRoot>> \o defers
             /\ cmdlog' = Append(cmdlog, rootCmd)
             /\ spc' = "body" /\ ret' = ret
        ELSE IF fail = "mkboot"
        THEN /\ Return("err")
             /\ mounts' = Append(mounts, destRoot)
             /\ made' = made \cup {destRoot}
             /\ defers' = <<destRoot>> \o defers
             /\ cmdlog' = Append(cmdlog, rootCmd)
        ELSE IF fail = "mountboot"
        THEN /\ Return("err")
             /\ mounts' = Append(mounts, destRoot)
             /\ made' = made \cup {destRoot}
             /\ defers' = <<destRoot>> \o defers
             /\ cmdlog' = cmdlog \o <<rootCmd, bootCmd>>
        ELSE /\ mounts' = mounts \o <<destRoot, bootDir>>
             /\ made' = made \cup {destRoot, bootDir}
             /\ defers' = <<bootDir, destRoot>> \o defers
             /\ cmdlog' = cmdlog \o <<rootCmd, bootCmd>>
             /\ spc' = "body" /\ ret' = ret

MountFailures == {"none", "mkdir", "mount", "mkboot", "mountboot"}

\* AdjustSystem up to the mounts
AdjustEnter ==
    /\ UNCHANGED <<runVars, pathVars, devVars, logVars, failed>>
    /\ op = "adjust" /\ spc = "entry"
    /\ UNCHANGED <<op, rn, rkind, rbound, st, mplan, mopts, tempSrc, rsyncCmds, jobVars>>
    /\ LET rootIdx == IndexOfMount(mplan, {RootPath})
           bootIdx == IndexOfMount(mplan, AdjustBootMounts)
       IN  IF mopts.DestRoot = EmptyStr
           THEN Return("err") /\ UNCHANGED <<mounts, made, defers, cmdlog>>
           ELSE IF rootIdx = -1
           THEN Return("ok") /\ UNCHANGED <<mounts, made, defers, cmdlog>>
           ELSE IF mopts.Destination = EmptyStr
           THEN Return("err") /\ UNCHANGED <<mounts, made, defers, cmdlog>>
           ELSE \E fail \in MountFailures :
                  MountRootAndBoot(rootIdx, bootIdx, PathJoin(mopts.DestRoot, <<"boot">>), fail)

\* adjustments that set the hostname before the kernel command line
AdjustStepsHostnameFirst(o) ==
    <<"adjustFstab">>
    \o (IF o.Hostname # EmptyStr THEN <<"adjustHostname">> ELSE <<>>)
    \o (IF ~o.LeaveSDUSB THEN <<"adjustCmdline">> ELSE <<>>)
    \o (IF o.LabelPartitions # EmptyStr THEN <<"applyLabels">> ELSE <<>>)
    \o (IF o.GrubAuto THEN <<"grub-install">> ELSE <<>>)
    \o (IF Len(o.SetupArgs) > 0
        THEN <<IF ~o.SetupNoChroot THEN "chroot klon-setup" ELSE "klon-setup">>
        ELSE <<>>)

\* The adjustments AdjustSystem makes, in order.
AdjustSteps(o) ==
    <<"adjustFstab">>
    \o (IF ~o.LeaveSDUSB THEN <<"adjustCmdline">> ELSE <<>>)
    \o (IF o.Hostname # EmptyStr THEN <<"adjustHostname">> ELSE <<>>)
    \o (IF o.LabelPartitions # EmptyStr THEN <<"applyLabels">> ELSE <<>>)
    \o (IF o.GrubAuto THEN <<"grub-install">> ELSE <<>>)
    \o (IF Len(o.SetupArgs) > 0
        THEN <<IF ~o.SetupNoChroot THEN "chroot klon-setup" ELSE "klon-setup">>
        ELSE <<>>)

\* the adjustments, stopping at the first one that fails (k), if any
AdjustBody ==
    /\ UNCHANGED <<runVars, pathVars, devVars, logVars>>
    /\ op = "adjust" /\ spc = "body"
    /\ UNCHANGED <<op, rn, rkind, rbound, st, mplan, mopts, mounts, made, defers, tempSrc, rsyncCmds, jobVars>>
    /\ LET todo == AdjustSteps(mopts)
       IN  \E k \in 0..Len(todo) :
             /\ cmdlog' = cmdlog \o [i \in 1..(IF k = 0 THEN Len(todo) ELSE k) |->
                                        Cmd(todo[i], <<mopts.DestRoot>>)]
             /\ failed' = IF k = 0 THEN <<>> ELSE <<Cmd(todo[k], <<mopts.DestRoot>>)>>
             /\ Return(IF k = 0 THEN "ok" ELSE "err")

\* VerifyClone up to the mounts
VerifyEnter ==
    /\ UNCHANGED <<runVars, pathVars, devVars, logVars, failed>>
    /\ op = "verify" /\ spc = "entry"
    /\ UNCHANGED <<op, rn, rkind, rbound, st, mplan, mopts, tempSrc, rsyncCmds, jobVars>>
    /\ LET rootIdx == IndexOfMount(mplan, {RootPath})
           bootIdx == IndexOfMount(mplan, VerifyBootMounts)
           bootMount == MountOfLast(mplan, VerifyBootMounts)
       IN  IF mopts.DestRoot = EmptyStr \/ mopts.Destination = EmptyStr \/ rootIdx = -1
           THEN Return("err") /\ UNCHANGED <<mounts, made, defers, cmdlog>>
           ELSE \E fail \in MountFailures :
                  MountRootAndBoot(rootIdx, bootIdx,
                                   PathJoin(mopts.DestRoot, TrimSlash(bootMount)), fail)

VerifyChecks == <<"etc/os-release", "etc/fstab", "boot/cmdline.txt", "bin/sh", "usr/bin",
                  "config.txt", "overlays", "kernel", "chroot">>
BootChecks == {"config.txt", "overlays", "kernel"}

\* the checks of VerifyClone; fail names the first check that fails
\* a verification that fails when fsck -n reports a problem
VerifyResultFsckFatal(k, bad) == IF k = 0 /\ bad = {} THEN "ok" ELSE "err"

\* what VerifyClone returns: k is the check that failed (0: none), bad the fsck -n
\* commands that exited non-zero
VerifyResult(k, bad) == IF k = 0 THEN "ok" ELSE "err"

VerifyBody ==
    /\ UNCHANGED <<runVars, pathVars, devVars, logVars>>
    /\ op = "verify" /\ spc = "body"
    /\ UNCHANGED <<op, rn, rkind, rbound, st, mplan, mopts, mounts, made, defers, tempSrc, rsyncCmds, jobVars>>
    /\ LET rootIdx == IndexOfMount(mplan, {RootPath})
           bootIdx == IndexOfMount(mplan, VerifyBootMounts)
           rootPart == partitionDevice(mopts.Destination, rootIdx)
           fsck == <<Cmd("fsck -n", <<rootPart>>)>>
                   \o (IF bootIdx # -1
                       THEN <<Cmd("fsck -n", <<partitionDevice(mopts.Destination, bootIdx)>>)>>
                       ELSE <<>>)
           chroot == Cmd("chroot /bin/true", <<mopts.DestRoot>>)
       IN  \E k \in 0..Len(VerifyChecks), bad \in SUBSET (1..Len(fsck)) :
             /\ k # 0 /\ VerifyChecks[k] \in BootChecks => bootIdx # -1
             /\ IF k = 0 \/ VerifyChecks[k] = "chroot"
                THEN /\ cmdlog' = cmdlog \o fsck \o <<chroot>>
                     /\ failed' = SelectSeq(fsck, LAMBDA c : \E i \in bad : fsck[i] = c)
                                   \o (IF k = 0 THEN <<>> ELSE <<chroot>>)
                ELSE /\ cmdlog' = cmdlog
                     /\ failed' = <<Cmd(VerifyChecks[k], <<mopts.DestRoot>>)>>
             /\ Return(VerifyResult(k, bad))

(***************************************************************************)
(* Inputs of the mount-discipline specification                            *)
(***************************************************************************)
NoRunner == [DestRoot |-> EmptyStr, PartitionStrategy |-> "", ExcludePatterns |-> <<>>,
             ExcludeFromFiles |-> <<>>, DestDisk |-> EmptyStr,
             DeleteDest |-> FALSE, DeleteRoot |-> FALSE]
NoStep == Step("", EmptyStr, EmptyStr, 0, EmptyStr)
NoOpts == [Destination |-> EmptyStr, DestRoot |-> EmptyStr, LeaveSDUSB |-> FALSE,
           Hostname |-> EmptyStr, LabelPartitions |-> EmptyStr, GrubAuto |-> FALSE,
           SetupArgs |-> <<>>, SetupNoChroot |-> FALSE]

SyncStep(src, idx, mp) == Step("sync-filesystem", src, NameSdb, idx, mp)

\* the steps and runners whose sync is followed to its end
SyncSteps ==
    { SyncStep(EmptyStr, 2, RootPath), SyncStep(EmptyStr, 1, BootPath),
      SyncStep(DevPrefix \o NameSda \o <<"3">>, 3, EmptyStr), SyncStep(EmptyStr, 3, EmptyStr) }

SyncRunners ==
    { NewCommandRunner(root, "clone-table", <<>>, <<>>, NameSdb, TRUE, FALSE) :
        root \in {DefaultDestRoot, EmptyStr} }

\* the steps and runners that exercise the destination check and the
\* operations other than the root sync
StepDests == {NameSdb, DevPrefix \o NameSdb, NameSda, NameMmc0, EmptyStr}
BoundDests == {NameSdb, DevPrefix \o NameSdb, EmptyStr}
SrcPart == DevPrefix \o NameSda \o <<"1">>

GuardSteps ==
    UNION { { [Step("prepare-disk", DevPrefix \o NameSda, d, 0, EmptyStr) EXCEPT !.SizeBytes = n],
              [Step("resize-p1", EmptyStr, d, 0, EmptyStr) EXCEPT !.SizeBytes = n] } :
            d \in StepDests, n \in {0, 3} }
    \cup { Step("grow-partition", EmptyStr, d, i, EmptyStr) : d \in StepDests, i \in {0, 2} }
    \cup { Step("initialize-partition", src, d, 1, BootPath) : d \in StepDests, src \in {SrcPart, EmptyStr} }
    \cup { Step("sync-filesystem", src, d, 1, mp) :
             d \in StepDests, src \in {SrcPart, EmptyStr}, mp \in {BootPath, EmptyStr} }
    \cup { Step("rename-disk", EmptyStr, d, 0, EmptyStr) : d \in StepDests }

GuardRunners(b) ==
    { NewCommandRunner(DefaultDestRoot, sg, <<>>, <<>>, b, dd, dr) :
        sg \in {"", "new-layout", "new-layout-gpt", "zfs"}, dd \in BOOLEAN, dr \in BOOLEAN }

RunInput(k, b, r, s) == [k |-> k, b |-> b, r |-> r, s |-> s]

RunInputs ==
    UNION { { RunInput("command", b, r, s) : r \in GuardRunners(b), s \in GuardSteps } : b \in BoundDests }
    \cup { RunInput("noop", b, NoRunner, s) : b \in BoundDests, s \in GuardSteps \cup SyncSteps }
    \cup { RunInput("command", NameSdb, r, s) : r \in SyncRunners, s \in SyncSteps }

MountPlans ==
    { <<Part(1, EmptyStr, BootPath, "sync"), Part(2, EmptyStr, RootPath, "sync")>>,
      <<Part(1, EmptyStr, FirmwarePath, "sync"), Part(2, EmptyStr, RootPath, "sync")>>,
      <<Part(1, EmptyStr, RootPath, "sync")>>,
      <<Part(1, EmptyStr, BootPath, "sync")>> }

MountOpts ==
    [Destination : {NameSdb, EmptyStr}, DestRoot : {DefaultDestRoot, EmptyStr},
     LeaveSDUSB : BOOLEAN, Hostname : {EmptyStr}, LabelPartitions : {EmptyStr},
     GrubAuto : BOOLEAN, SetupArgs : {<<>>}, SetupNoChroot : {FALSE}]

\* options that enable the optional adjustments of AdjustSystem
AdjustOpts ==
    [Destination : {NameSdb}, DestRoot : {DefaultDestRoot},
     LeaveSDUSB : BOOLEAN, Hostname : {EmptyStr, <<"p", "i">>}, LabelPartitions : {EmptyStr, <<"k">>},
     GrubAuto : BOOLEAN, SetupArgs : {<<>>, <<"init">>}, SetupNoChroot : BOOLEAN]

InitSyncCommon ==
    /\ spc = "entry" /\ mounts = <<>> /\ made = {} /\ defers = <<>> /\ ret = "none"
    /\ tempSrc = EmptyStr /\ rsyncCmds = {} /\ cmdlog = <<>> /\ failed = <<>>
    /\ jstate = [j \in Jobs |-> "new"] /\ jres = [j \in Jobs |-> "none"]
    /\ sem = 0 /\ errCh = <<>> /\ recvd = 0 /\ seen = {}

InitExec ==
    /\ InitRunIdle
    /\ InitPathIdle
    /\ InitDevIdle
    /\ InitSyncCommon
    /\ \/ /\ op = "run" /\ mplan = <<>> /\ mopts = NoOpts
          /\ \E in \in RunInputs : rkind = in.k /\ rbound = in.b /\ rn = in.r /\ st = in.s
       \/ /\ op \in {"adjust", "verify"} /\ rn = NoRunner /\ st = NoStep
          /\ rkind = "none" /\ rbound = EmptyStr
          /\ mplan \in MountPlans
          /\ mopts \in MountOpts \cup (IF op = "adjust" THEN AdjustOpts ELSE {})

NextExec ==
    \/ NoopRun \/ RunRefused \/ RunPrepareDisk \/ RunGrowPartition
    \/ RunInitializePartition \/ RunResizeP1 \/ RunSyncFilesystem \/ RunUnknown
    \/ SyncEnter \/ SyncSource \/ SyncSingle \/ RootBuild
    \/ \E j \in Jobs : Spawn(j) \/ Acquire(j) \/ Exit(j) \/ Send(j) \/ Release(j)
    \/ Collect \/ SyncFinish \/ RunDefer
    \/ AdjustEnter \/ AdjustBody \/ VerifyEnter \/ VerifyBody

SpecExec == InitExec /\ [][NextExec]_vars

(***************************************************************************)
(* Claims about the root sync and the mounts                               *)
(***************************************************************************)
\* runParallelRootSync built its five jobs and has returned to its caller
RootSyncReturned ==
    /\ op = "sync" /\ st.Mountpoint = RootPath /\ rsyncCmds # {}
    /\ spc \in {"synced", "defer", "returned"}

Running == {j \in Jobs : jstate[j] = "running"}
Terminated == {j \in Jobs : jstate[j] \in {"exited", "sent", "done"}}

\* C4: once a sync-filesystem step, AdjustSystem or VerifyClone has returned,
\* with success or with an error, none of the directories it mounted is still
\* in the mount table.
C4_NoMountRemains ==
    spc = "returned" => \A i \in 1..Len(mounts) : mounts[i] \notin made

\* C5: the parallel root sync returns to its caller only after all five
\* rsync jobs have terminated, also when one of them failed.
C5_ReturnsAfterAllJobs ==
    RootSyncReturned => Terminated = Jobs

\* C6: at any time at most two rsync children of a root sync are running.
C6_AtMostTwoRunning ==
    Cardinality(Running) <= 2

C6_Witness ==
    /\ Cardinality(Running) = 2
    /\ \E j \in Jobs : jstate[j] = "start"

C10_Status24Tolerated ==
    (RootSyncReturned /\ spc = "returned" /\ seen \subseteq {23, 24}) => ret = "ok"

(***************************************************************************)
(* The specification of the run                                            *)
(***************************************************************************)
InitSyncIdle ==
    /\ InitSyncCommon
    /\ op = "none" /\ rn = NoRunner /\ rkind = "none" /\ rbound = EmptyStr /\ st = NoStep
    /\ mplan = <<>> /\ mopts = NoOpts

Init ==
    /\ InitSyncIdle
    /\ InitPathIdle
    /\ InitDevIdle
    /\ InitRunCommon
    /\ pc = "start"
    /\ \E b \in BootDisks \cup {NoDisk}, d \in AllDisks \cup {NoDisk}, listed \in BOOLEAN :
         /\ hw = [bootOn |-> b, destOn |-> d]
         /\ sys = SysOf(b, listed)
         /\ \E dest \in (IF d = NoDisk THEN {EmptyStr} ELSE DestForms(d)),
                m \in ModeFlags, c \in ConfirmFlags :
              opts = CliOptions(dest, m, c)

Next ==
    \/ CheckPrerequisites \/ DoPlan \/ DoSafety \/ DoConfirm
    \/ ApplyStep \/ ApplyDone \/ DoAdjust \/ DoVerify

Spec == Init /\ [][Next]_vars

(***************************************************************************)
(* Claims about the run                                                    *)
(***************************************************************************)
\* the plan was made and its source disk is the disk the destination names
SameBaseDisk == plan # NoPlan /\ hw.bootOn # NoDisk /\ hw.bootOn = hw.destOn

\* C1: when the plan's source disk and the requested destination are on the
\* same base disk, ValidateCloneSafety returns an error and the run ends
\* without Apply handing any step to the runner.
C1_SameDiskRefused ==
    (SameBaseDisk /\ pc # "safety") =>
        pc = "done" /\ runErr.kind = "safety" /\ handed = <<>>

C1_Witness ==
    /\ SameBaseDisk /\ pc = "done" /\ runErr.kind = "safety"
    /\ opts.Destination = PartName(NameMmc0, 1)

\* C3: Apply hands the steps to the runner one at a time in the order
\* BuildExecutionSteps produced them; it stops at the first step whose Run
\* returns an error, runs no later step, and returns an error naming that
\* step's operation, destination and partition index.
C3_ApplyInOrder ==
    LET all == BuildExecutionSteps(plan, PlanOptsOf(opts))
        n == Len(handed)
    IN  /\ n <= Len(all) /\ handed = SubSeq(all, 1, n)
        /\ Len(results) = n
        /\ \A i \in 1..(n - 1) : results[i] = "ok"
        /\ (n > 0 /\ results[n] = "err") =>
               /\ pc = "done"
               /\ runErr = Err("apply", all[n].Operation, all[n].DestinationDisk,
                               all[n].PartitionIndex)
        /\ (pc \in {"adjust", "verify"} \/ (pc = "done" /\ runErr.kind \in {"", "adjust", "verify"})) =>
               n = Len(all) /\ \A i \in 1..n : results[i] = "ok"

C3_Witness ==
    /\ pc = "done" /\ runErr.kind = "apply"
    /\ Len(handed) = 3 /\ Len(handed) < Len(steps)
    /\ handed[3].Operation = "sync-filesystem"

(***************************************************************************)
(* Claims about the state log and the confirmation                         *)
(***************************************************************************)
Phases == [i \in 1..Len(stateLog) |-> stateLog[i].phase]
TerminalPhases == {"APPLY_SUCCESS", "APPLY_FAILED"}
RunFailedIn(kinds) == pc = "done" /\ runErr.kind \in kinds

\* C11: after a run in which Apply, AdjustSystem and VerifyClone succeed the
\* state log is PLAN, APPLY_SUCCESS; after a run that fails in one of them it
\* is PLAN, APPLY_FAILED; no run appends two terminal entries, and none comes
\* before the PLAN entry.
C11_LogPhases ==
    /\ (pc = "done" /\ runErr = NoErr) => Phases = <<"PLAN", "APPLY_SUCCESS">>
    /\ RunFailedIn({"apply", "adjust", "verify"}) => Phases = <<"PLAN", "APPLY_FAILED">>
    /\ Cardinality({i \in 1..Len(stateLog) : Phases[i] \in TerminalPhases}) <= 1
    /\ \A i \in 1..Len(stateLog) : Phases[i] \in TerminalPhases => (i > 1 /\ Phases[1] = "PLAN")

C11_Witness ==
    /\ RunFailedIn({"verify"}) /\ Len(handed) > 0
    /\ Phases = <<"PLAN", "APPLY_FAILED">>

\* C12 as stated: every fatal error of a run, of whichever kind, is in the
\* state log as an APPLY_FAILED entry carrying the error when the run has
\* returned it.
C12_EveryErrorLogged ==
    (pc = "done" /\ runErr # NoErr) =>
        \E i \in 1..Len(stateLog) : stateLog[i] = LogEntry("APPLY_FAILED", runErr)

\* C12 amended: an error with which Apply, AdjustSystem or VerifyClone ends
\* the run is the last entry of the state log, as APPLY_FAILED carrying the
\* error; an error raised before Apply (prerequisites, planning, safety
\* check, confirmation) is returned with no APPLY_FAILED entry in the log.
C12_LateErrorsLogged ==
    (pc = "done" /\ runErr # NoErr) =>
        IF runErr.kind \in {"apply", "adjust", "verify"}
        THEN /\ stateLog # <<>>
             /\ stateLog[Len(stateLog)] = LogEntry("APPLY_FAILED", runErr)
        ELSE /\ runErr.kind \in {"prerequisites", "plan", "safety", "cancelled", "confirm"}
             /\ \A i \in 1..Len(stateLog) : Phases[i] # "APPLY_FAILED"

C12_Witness ==
    /\ RunFailedIn({"apply"}) /\ runErr.op = "sync-filesystem" /\ runErr.part = 2
    /\ stateLog[Len(stateLog)] = LogEntry("APPLY_FAILED", runErr)

\* C13: in a run whose safety check fails the state log holds exactly the
\* PLAN entry written before the check, no terminal entry, and no step was
\* handed to the runner, so that no command of a step was executed.
C13_SafetyFailureLog ==
    RunFailedIn({"safety"}) =>
        /\ Phases = <<"PLAN">>
        /\ handed = <<>> /\ results = <<>>

C13_Witness ==
    /\ RunFailedIn({"safety"}) /\ safe = "mounted"
    /\ Phases = <<"PLAN">> /\ steps # <<>>

\* the flags that let run go on without asking
Waived(o) ==
    \/ o.Quiet
    \/ o.AutoApprove
    \/ o.UnattendedInit /\ o.Initialize
    \/ o.Unattended /\ ~o.Initialize

\* C14: Apply runs only after ValidateCloneSafety succeeded and either the
\* user answered yes or the confirmation was waived by quiet, auto-approve,
\* -U with initialize or -u without initialize; after the answer no the run
\* returns an error and no step is handed to the runner.
C14_ApplyOnlyAfterConsent ==
    /\ (pc \in {"apply", "adjust", "verify"} \/ handed # <<>>) =>
           /\ safe = ""
           /\ \/ answer = "yes" /\ ~Waived(opts)
              \/ answer = "waived" /\ Waived(opts)
    /\ answer = "no" => pc = "done" /\ runErr # NoErr /\ handed = <<>>

C14_Witness ==
    /\ answer = "waived" /\ handed # <<>>
    /\ opts.UnattendedInit /\ opts.Initialize /\ ~opts.Quiet /\ ~opts.AutoApprove

(***************************************************************************)
(* Claims about Runner.Run                                                 *)
(***************************************************************************)
NothingExecuted == cmdlog = <<>> /\ rsyncCmds = {} /\ mounts = <<>>
RunReturned == op \in {"run", "sync"} /\ spc = "returned"

\* C2 as stated: every Runner, the command runner and the no-op runner
\* alike, returns an error and executes nothing for a step whose destination
\* disk, after /dev/ prefixing, differs from the destination the runner was
\* constructed for.
C2_EveryRunnerRefuses ==
    (op \in {"run", "sync"} /\ ensureDevPrefix(st.DestinationDisk) # ensureDevPrefix(rbound)) =>
        /\ NothingExecuted
        /\ spc = "returned" => ret = "err"

\* C2 amended: the command runner returns an error and executes nothing for
\* a step whose destination disk is non-empty and, after /dev/ prefixing,
\* differs from the non-empty destination the runner was constructed for;
\* the no-op runner keeps no destination, executes nothing and returns
\* success for every step.
C2_CommandRunnerRefuses ==
    /\ (/\ op \in {"run", "sync"} /\ rkind = "command"
        /\ st.DestinationDisk # EmptyStr /\ rbound # EmptyStr
        /\ ensureDevPrefix(st.DestinationDisk) # ensureDevPrefix(rbound)) =>
           /\ NothingExecuted
           /\ spc = "returned" => ret = "err"
    /\ (op \in {"run", "sync"} /\ rkind = "noop") =>
           /\ NothingExecuted
           /\ spc = "returned" => ret = "ok"

C2_Witness ==
    /\ RunReturned /\ rkind = "command" /\ ret = "err" /\ NothingExecuted
    /\ st.DestinationDisk = NameSda /\ rbound = DevPrefix \o NameSdb
    /\ st.Operation = "sync-filesystem"

\* C8: the rsync command of a root sync carries --delete exactly when the
\* runner's delete_root is set, and that of a non-root sync exactly when its
\* delete_dest is set.
C8_DeleteFlagPerScope ==
    \A args \in rsyncCmds :
        HasField(args, Flag("--delete")) <=>
            (IF st.Mountpoint = RootPath THEN rn.DeleteRoot ELSE rn.DeleteDest)

(***************************************************************************)
(* What the rsync commands of the root sync copy.  rsync matches an exclude *)
(* pattern that starts with "/" at the root of its own transfer (its source *)
(* argument), does not descend into an excluded directory, and with         *)
(* --one-file-system does not enter a directory on which another filesystem *)
(* is mounted.                                                              *)
(***************************************************************************)
\* the patterns of the --exclude options of an argument vector
ExcludesOf(args) == {args[i + 1] : i \in {k \in 1..(Len(args) - 1) : args[k] = Flag("--exclude")}}

\* the source argument of an argument vector, as path components
SrcRootOf(args) == SelectSeq(args[Len(args) - 1], LAMBDA c : c # "/")

IsPrefix(a, b) == Len(a) <= Len(b) /\ SubSeq(b, 1, Len(a)) = a

CompMatch(pc1, c) == pc1 = "*" \/ pc1 = c

\* pattern pat (anchored) matches the name rel, relative to the transfer root
PatternMatches(pat, rel, isDir) ==
    LET body == Tail(pat)
        dirOnly == body[Len(body)] = "/"
        comps == IF dirOnly THEN SubSeq(body, 1, Len(body) - 1) ELSE body
        n == Len(comps)
    IN  IF comps[n] = "**"
        THEN /\ Len(rel) >= n
             /\ \A i \in 1..(n - 1) : CompMatch(comps[i], rel[i])
        ELSE /\ Len(rel) = n
             /\ \A i \in 1..n : CompMatch(comps[i], rel[i])
             /\ dirOnly => isDir

\* rsync with the argument vector args copies the path f of the source; the
\* transfer root itself is always transferred, a filter only sees what is below
Copies(args, f, mnts) ==
    LET root == SrcRootOf(args)
        rel == SubSeq(f.p, Len(root) + 1, Len(f.p))
        excluded(k) == \E pat \in ExcludesOf(args) :
                           PatternMatches(pat, SubSeq(rel, 1, k), k < Len(rel) \/ f.dir)
    IN  /\ IsPrefix(root, f.p)
        /\ \A k \in 1..Len(rel) : ~excluded(k)
        /\ HasField(args, Flag("--one-file-system")) =>
               \A m \in mnts : ~(IsPrefix(root, m) /\ m # root /\ IsPrefix(m, f.p) /\ m # f.p)

\* the runner whose root sync is examined
PathRunner == NewCommandRunner(DefaultDestRoot, "clone-table", <<>>, <<>>, NameSdb, FALSE, FALSE)

\* the argument vector of the one rsync of / that BuildSyncCommand describes
SingleArgs(r) == Tail(RootBaseCmd(r).cmd)

\* the rsync of job j goes over the path
EvalJob(j) ==
    /\ UNCHANGED <<runVars, syncVars, devVars, logVars>>
    /\ j \notin pjobs
    /\ pjobs' = pjobs \cup {j}
    /\ pcopied' = IF Copies(JobArgs(PathRunner, PathRunner.DestRoot, j), pth, fsMounts)
                  THEN pcopied \cup {j} ELSE pcopied
    /\ UNCHANGED <<pth, fsMounts, psingle>>

\* one rsync of / goes over the path
EvalSingle ==
    /\ UNCHANGED <<runVars, syncVars, devVars, logVars>>
    /\ psingle = "unknown"
    /\ psingle' = IF Copies(SingleArgs(PathRunner), pth, fsMounts) THEN "copied" ELSE "skipped"
    /\ UNCHANGED <<pth, fsMounts, pjobs, pcopied>>

File(p) == [p |-> p, dir |-> FALSE]
Dir(p) == [p |-> p, dir |-> TRUE]

PathUniverse ==
    { File(<<"etc", "fstab">>), File(<<"bin", "sh">>), Dir(<<"etc">>),
      Dir(<<"usr">>), File(<<"usr", "bin", "ls">>), File(<<"usr", "tmp", "x">>),
      Dir(<<"var">>), File(<<"var", "lib", "db">>), File(<<"var", "cache", "apt">>),
      File(<<"var", "tmp", "t">>), File(<<"var", "log", "syslog">>),
      File(<<"var", "log", "journal", "j">>), Dir(<<"var", "opt">>), File(<<"var", "opt", "f">>),
      Dir(<<"home">>), File(<<"home", "u", "doc">>), File(<<"home", "u", ".cache", "c">>),
      Dir(<<"opt">>), File(<<"opt", "app", "a">>), File(<<"opt", "mnt", "k">>),
      Dir(<<"proc">>), File(<<"proc", "1">>), File(<<"tmp", "t">>),
      File(<<"mnt", "clone", "etc">>), File(<<"run", "lock">>) }

MountSets == { {}, {<<"home">>} }

InitPaths ==
    /\ InitRunIdle
    /\ InitSyncIdle
    /\ InitDevIdle
    /\ pth \in PathUniverse /\ fsMounts \in MountSets
    /\ pjobs = {} /\ pcopied = {} /\ psingle = "unknown"

NextPaths == EvalSingle \/ \E j \in Jobs : EvalJob(j)

SpecPaths == InitPaths /\ [][NextPaths]_vars

SubtreeOf(f) == IF Len(f.p) > 0 /\ f.p[1] \in {Subtrees[i] : i \in 1..Len(Subtrees)}
                THEN f.p[1] ELSE "rest"

\* C7: the four subtree jobs and the rest job together copy exactly the
\* paths one rsync of / with the root argument vector copies, and a path of
\* a subtree is copied by no job but its own.
C7_UnionEqualsSingle ==
    (pjobs = Jobs /\ psingle # "unknown") =>
        /\ (pcopied # {}) <=> (psingle = "copied")
        /\ pcopied \subseteq {SubtreeOf(pth)}

(***************************************************************************)
(* The planner, the step builder and the safety check on their own:       *)
(* PlanWithSystem, BuildExecutionSteps and ValidateCloneSafety applied to  *)
(* the answers of a probed system                                          *)
(***************************************************************************)
PlanOptions(dest, init, two, expand, all, dirs, strategy) ==
    [Destination |-> dest, Initialize |-> init, ForceTwoPartitions |-> two,
     ExpandLastPartition |-> expand, ForceSync |-> FALSE, P1SizeBytes |-> 0, AllSync |-> all,
     MountDirs |-> dirs, PartitionStrategy |-> strategy]

\* the second disk of the family of disk
OtherDisk(disk) ==
    IF disk = NameSda THEN NameSdb
    ELSE IF disk = NameMmc0 THEN NameMmc1
    ELSE IF disk = NameNvme0n1 THEN NameNvme1n1
    ELSE NameSdb

\* /proc/self/mounts of a machine booted from disk: its partitions on the
\* source disk, in the order of the table; with shape "whole" the table has
\* the root partition and then the disk itself, mounted without a partition
MountsOf(disk, shape) ==
    IF disk = NoDisk THEN <<>>
    ELSE IF shape = "whole"
    THEN << [Device |-> DevPrefix \o PartName(disk, 2), Mountpoint |-> RootPath],
            [Device |-> DevPrefix \o disk, Mountpoint |-> DataPath] >>
    ELSE << [Device |-> DevPrefix \o PartName(disk, 1), Mountpoint |-> BootPath],
            [Device |-> DevPrefix \o PartName(disk, 2), Mountpoint |-> RootPath] >>
         \o (IF shape = "three"
             THEN << [Device |-> DevPrefix \o PartName(disk, 3), Mountpoint |-> DataPath] >>
             ELSE <<>>)

\* the entries of the mount table that belong to disk
parseMountedPartitionsForDisk(table, disk) ==
    SelectSeq(table, LAMBDA m : baseDiskFromDevice(m.Device) = disk)

\* the lines lsblk prints: the disk, its partitions with their mountpoints,
\* a third partition that is mounted or not, and the first partition of the
\* other disk; a partition that is not mounted has an empty column, or "-"
LsblkOf(disk, shape, dash) ==
    LET none == IF dash THEN Dash ELSE EmptyStr
        own == IF disk = NoDisk THEN <<>>
               ELSE << <<disk, EmptyStr, TypDisk>>,
                       <<PartName(disk, 1), BootPath, TypPart>>,
                       <<PartName(disk, 2), RootPath, TypPart>> >>
                    \o (IF shape = "three" THEN << <<PartName(disk, 3), DataPath, TypPart>> >>
                        ELSE IF shape = "spare" THEN << <<PartName(disk, 3), none, TypPart>> >>
                        ELSE <<>>)
    IN  own \o << <<OtherDisk(disk), EmptyStr, TypDisk>>,
                  <<PartName(OtherDisk(disk), 1), none, TypPart>> >>

PlanSys(disk, shape, dash) ==
    LET boot == IF disk = NoDisk THEN BootedDisk ELSE DevPrefix \o PartName(disk, 2)
    IN  [BootDisk |-> boot, BootErr |-> FALSE, MountedErr |-> FALSE,
         Mounted |-> parseMountedPartitionsForDisk(MountsOf(disk, shape),
                                                    baseDiskFromDevice(boot)),
         AllParts |-> allPartitionsIncludingUnmounted(baseDiskFromDevice(boot),
                                                      LsblkOf(disk, shape, dash))]

PlanShapes == {"two", "three", "spare", "whole"}
SpacedBoot == <<Blank>> \o BootPath \o <<Blank>>
MountDirSets == {<<>>, <<BootPath>>, <<SpacedBoot>>, <<DataPath>>}
\* initialize, force_two_partitions, expand_last_partition, the strategy and
\* the size asked for partition 1
PlanFlags ==
    {<<FALSE, FALSE, FALSE, "", 0>>}
        \cup {<<TRUE, two, expand, strategy, 0>> :
                 two \in BOOLEAN, expand \in BOOLEAN, strategy \in {"", "new-layout"}}
        \cup {<<TRUE, two, FALSE, "new-layout", 300 * MiB>> : two \in BOOLEAN}

\* the destinations tried on a machine booted from disk
PlanDests(disk) ==
    LET other == OtherDisk(disk)
    IN  {EmptyStr, other, DevPrefix \o other, PartName(other, 1)}
            \cup (IF disk = NoDisk THEN {} ELSE {disk, PartName(disk, 1)})

DiskOfDest(disk, dest) ==
    IF dest = EmptyStr THEN NoDisk
    ELSE IF dest \in {disk, PartName(disk, 1)} THEN disk
    ELSE OtherDisk(disk)

InitPlan ==
    /\ InitSyncIdle /\ InitPathIdle /\ InitDevIdle /\ InitRunCommon
    /\ pc = "p-start"
    /\ \E disk \in BootDisks \cup {NoDisk}, shape \in PlanShapes, dash \in BOOLEAN :
         /\ sys = PlanSys(disk, shape, dash)
         /\ \E dest \in PlanDests(disk), f \in PlanFlags, all \in BOOLEAN, dirs \in MountDirSets :
              /\ opts = [PlanOptions(dest, f[1], f[2], f[3], all, dirs, f[4])
                            EXCEPT !.P1SizeBytes = f[5]]
              /\ hw = [bootOn |-> disk, destOn |-> DiskOfDest(disk, dest)]

\* PlanWithSystem(sys, opts)
PlanCall ==
    /\ UNCHANGED <<syncVars, pathVars, devVars, logVars>>
    /\ pc = "p-start"
    /\ LET r == PlanWithSystem(sys, opts)
       IN  IF r.err
           THEN /\ pc' = "p-failed" /\ runErr' = Err("plan", "", EmptyStr, 0)
                /\ plan' = plan
           ELSE /\ pc' = "p-planned" /\ plan' = r.plan /\ runErr' = runErr
    /\ UNCHANGED <<hw, sys, opts, steps, stateLog, handed, results, safe, answer>>

\* BuildExecutionSteps(plan, opts)
BuildCall ==
    /\ UNCHANGED <<syncVars, pathVars, devVars, logVars>>
    /\ pc = "p-planned"
    /\ steps' = BuildExecutionSteps(plan, opts)
    /\ pc' = "p-built"
    /\ UNCHANGED <<hw, sys, opts, plan, stateLog, handed, results, runErr, safe, answer>>

\* ValidateCloneSafety(plan, opts)
SafetyCall ==
    /\ UNCHANGED <<syncVars, pathVars, devVars, logVars>>
    /\ pc = "p-built"
    /\ \E env \in SafetyEnvs : safe' = ValidateCloneSafety(plan, opts, env)
    /\ pc' = "p-checked"
    /\ UNCHANGED <<hw, sys, opts, plan, steps, stateLog, handed, results, runErr, answer>>

NextPlan == PlanCall \/ BuildCall \/ SafetyCall

SpecPlan == InitPlan /\ [][NextPlan]_vars

(***************************************************************************)
(* Claims about the planner and the step builder                           *)
(***************************************************************************)
Planned == pc \in {"p-planned", "p-built", "p-checked"}
Built == pc \in {"p-built", "p-checked"}
NonSync(parts) == {k \in 1..Len(parts) : parts[k].Action # "sync"}
MaxOf(S) == CHOOSE m \in S : \A x \in S : x <= m

C16_StepsOnDestinationBase ==
    Built =>
        \A i \in 1..Len(steps) :
            /\ baseDiskFromDevice(steps[i].DestinationDisk) = opts.Destination
            /\ ensureDevPrefix(steps[i].DestinationDisk) # plan.SourceDisk

\* C16 amended: every step carries options.destination as it was given; and
\* once ValidateCloneSafety has accepted the plan, that destination is no
\* partition name and is not on the base disk of the plan's source.
C16_StepsOnRequestedDestination ==
    /\ Built => \A i \in 1..Len(steps) : steps[i].DestinationDisk = opts.Destination
    /\ (pc = "p-checked" /\ safe = "") =>
           /\ \A i \in 1..Len(steps) :
                /\ ~looksLikePartition(ensureDevPrefix(steps[i].DestinationDisk))
                /\ baseDiskFromDevice(ensureDevPrefix(steps[i].DestinationDisk))
                       # baseDiskFromDevice(ensureDevPrefix(plan.SourceDisk))
           /\ hw.bootOn # NoDisk => hw.destOn # hw.bootOn

C16_Witness ==
    /\ pc = "p-checked" /\ safe = "" /\ Len(steps) >= 2
    /\ opts.Destination = DevPrefix \o NameNvme1n1
    /\ steps[1].DestinationDisk = DevPrefix \o NameNvme1n1

\* C17 as stated: every PlanResult the planner returns has a destination
\* that is not on the base disk of its source.
C17_PlanNeverOnSourceDisk ==
    Planned => ~sameDisk(plan.SourceDisk, plan.DestinationDisk)

\* C17 amended: the planner returns the destination as requested and the
\* base disk of the boot device as source, also when both are one disk; such
\* a plan is refused by ValidateCloneSafety, as being on the source disk or,
\* when the destination names a partition, possibly as being a partition.
C17_SameDiskPlanRefused ==
    /\ Planned =>
           /\ plan.DestinationDisk = opts.Destination
           /\ plan.SourceDisk = baseDiskFromDevice(sys.BootDisk)
    /\ (pc = "p-checked" /\ hw.bootOn # NoDisk /\ hw.bootOn = hw.destOn) =>
           /\ safe \in {"same-disk", "partition"}
           /\ ~looksLikePartition(ensureDevPrefix(opts.Destination)) => safe = "same-disk"

C17_Witness ==
    /\ pc = "p-checked" /\ safe = "same-disk"
    /\ hw.bootOn = NameSda /\ hw.destOn = NameSda
    /\ plan.DestinationDisk = PartName(NameSda, 1) /\ plan.SourceDisk = DevPrefix \o NameSda

\* C18: with all_sync the planner adds to the mounted partitions only
\* partitions of the source disk that are not mounted, so that no partition
\* device is in the plan twice.
C18_AllSyncAddsOnlyUnmounted ==
    (Planned /\ opts.AllSync /\ opts.MountDirs = <<>> /\ sys.Mounted # <<>>) =>
        LET parts == plan.Partitions
        IN  /\ \A i, j \in 1..Len(parts) : parts[i].Device = parts[j].Device => i = j
            /\ \A i \in (Len(sys.Mounted) + 1)..Len(parts) :
                 /\ parts[i].Mountpoint = EmptyStr
                 /\ baseDiskFromDevice(parts[i].Device) = plan.SourceDisk

\* index, device and mountpoint of the partitions, without their action
Bare(parts) == [i \in 1..Len(parts) |-> <<parts[i].Index, parts[i].Device, parts[i].Mountpoint>>]
Probed == PlanParts(sys.Mounted \o (IF opts.AllSync THEN sys.AllParts ELSE <<>>))
Wanted(mp) == mp = RootPath \/ \E k \in 1..Len(opts.MountDirs) : TrimSpace(opts.MountDirs[k]) = mp

C20_InitializeMarksActions ==
    (Planned /\ opts.Initialize) =>
        \A i \in 1..Len(plan.Partitions) :
            plan.Partitions[i].Action =
                IF opts.ForceTwoPartitions /\ plan.Partitions[i].Index > 2 THEN "sync"
                ELSE IF opts.PartitionStrategy = "" THEN "initialize+sync[clone-table]"
                ELSE "initialize+sync[new-layout]"

C20_Witness ==
    /\ Planned /\ opts.Initialize /\ opts.ForceTwoPartitions /\ opts.PartitionStrategy = ""
    /\ Len(plan.Partitions) = 3
    /\ plan.Partitions[2].Action = "initialize+sync[clone-table]"
    /\ plan.Partitions[3].Action = "sync"

\* the partition number a device name carries, 0 when it is the name of a
\* whole disk
NumberIn(dev) ==
    IF \E d \in AllDisks, n \in 1..9 : dev = DevPrefix \o PartName(d, n)
    THEN CHOOSE n \in 1..9 : \E d \in AllDisks : dev = DevPrefix \o PartName(d, n)
    ELSE 0

\* C21: the planner gives every probed partition the partition number of its
\* device name as index, and its 1-based position in the probe list only
\* when the name carries no number; the runner then addresses, for a step of
\* index i, partition i of the destination disk.
C21_IndexFromDeviceName ==
    LET raw == sys.Mounted \o (IF opts.AllSync THEN sys.AllParts ELSE <<>>)
    IN  /\ (Planned /\ raw # <<>> /\ opts.MountDirs = <<>>) =>
              /\ Len(plan.Partitions) = Len(raw)
              /\ \A i \in 1..Len(raw) :
                   /\ plan.Partitions[i].Device = raw[i].Device
                   /\ plan.Partitions[i].Index =
                        IF NumberIn(raw[i].Device) # 0 THEN NumberIn(raw[i].Device) ELSE i
        /\ (Built /\ raw # <<>> /\ hw.destOn # NoDisk /\ opts.Destination \in {hw.destOn, DevPrefix \o hw.destOn}) =>
              \A i \in 1..Len(steps) :
                  (steps[i].Operation = "sync-filesystem" /\ NumberIn(steps[i].SourceDevice) # 0) =>
                      partitionDevice(steps[i].DestinationDisk, steps[i].PartitionIndex)
                          = DevPrefix \o PartName(hw.destOn, NumberIn(steps[i].SourceDevice))

C21_Witness ==
    /\ Built /\ hw.bootOn = NameSda /\ opts.Destination = NameSdb
    /\ Len(plan.Partitions) = 2
    /\ plan.Partitions[1].Device = DevPrefix \o PartName(NameSda, 2) /\ plan.Partitions[1].Index = 2
    /\ plan.Partitions[2].Device = DevPrefix \o NameSda /\ plan.Partitions[2].Index = 2
    /\ \E i \in 1..Len(steps) :
         /\ steps[i].Operation = "sync-filesystem" /\ steps[i].Mountpoint = RootPath
         /\ partitionDevice(steps[i].DestinationDisk, steps[i].PartitionIndex)
                = DevPrefix \o PartName(NameSdb, 2)

\* C22: every plan the planner returns has at least one partition; when the
\* probes report no partition of the source disk, the plan has exactly the
\* two stub partitions, of index 1 and 2 and without device or mountpoint,
\* their action being sync unless initialize rewrote it.
C22_StubWhenNothingProbed ==
    LET raw == sys.Mounted \o (IF opts.AllSync THEN sys.AllParts ELSE <<>>)
    IN  Planned =>
            /\ Len(plan.Partitions) >= 1
            /\ raw = <<>> =>
                 /\ Len(plan.Partitions) = 2
                 /\ \A i \in 1..2 :
                      /\ plan.Partitions[i].Index = i
                      /\ plan.Partitions[i].Device = EmptyStr
                      /\ plan.Partitions[i].Mountpoint = EmptyStr
                      /\ ~opts.Initialize => plan.Partitions[i].Action = "sync"

C22_Witness ==
    /\ Planned /\ sys.BootDisk = BootedDisk /\ sys.Mounted = <<>>
    /\ opts.MountDirs = <<BootPath>> /\ ~opts.Initialize
    /\ Len(plan.Partitions) = 2
    /\ plan.Partitions[1].Index = 1 /\ plan.Partitions[2].Index = 2
    /\ plan.Partitions[2].Action = "sync"

(***************************************************************************)
(* The device-name functions, applied to the names of the disks of the     *)
(* three families and of their partitions                                  *)
(***************************************************************************)
MaxPartNo == 9

DevNames ==
    {DevPrefix \o d : d \in AllDisks}
        \cup {DevPrefix \o PartName(d, n) : d \in AllDisks, n \in 1..MaxPartNo}

\* the disk a device name of DevNames is on
DiskOf(dev) ==
    CHOOSE d \in AllDisks :
        dev = DevPrefix \o d \/ \E n \in 1..MaxPartNo : dev = DevPrefix \o PartName(d, n)

\* boot partition sizes in bytes: none, negative, below, at and above whole MiB
BootSizes ==
    {-MiB, -1, 0, 1, MiB - 1, MiB, MiB + 1, 256 * MiB, 300 * MiB - 1, 300 * MiB, 300 * MiB + 1,
     512 * MiB}

InitDev ==
    /\ InitRunIdle /\ InitSyncIdle /\ InitPathIdle /\ InitLogIdle
    /\ val = NoVal /\ probe = NoVal
    /\ \/ fn = "baseDiskFromDevice" /\ \E d \in DevNames : arg = <<d>>
       \/ fn = "sameDisk" /\ \E a \in DevNames, b \in DevNames : arg = <<a, b>>
       \/ /\ fn = "partitionIndexFromDevice"
          /\ \E d \in AllDisks, n \in 1..MaxPartNo, pre \in BOOLEAN :
               arg = <<IF pre THEN DevPrefix \o d ELSE d, n>>
       \/ /\ fn = "BuildPartitionCommand"
          /\ \E size \in BootSizes, strategy \in {"new-layout", "new-layout-gpt"} :
               arg = <<size, strategy>>

\* baseDiskFromDevice(dev), and baseDiskFromDevice of what it returned
BaseCall ==
    /\ UNCHANGED <<runVars, syncVars, pathVars, logVars>>
    /\ fn = "baseDiskFromDevice" /\ val = NoVal
    /\ val' = [once |-> baseDiskFromDevice(arg[1]),
               twice |-> baseDiskFromDevice(baseDiskFromDevice(arg[1]))]
    /\ UNCHANGED <<fn, arg, probe>>

\* sameDisk(a, b)
SameCall ==
    /\ UNCHANGED <<runVars, syncVars, pathVars, logVars>>
    /\ fn = "sameDisk" /\ val = NoVal
    /\ val' = [same |-> sameDisk(arg[1], arg[2])]
    /\ UNCHANGED <<fn, arg, probe>>

\* partitionIndexFromDevice(partitionDevice(base, n)), and partitionDevice of
\* the index it returned
IndexCall ==
    /\ UNCHANGED <<runVars, syncVars, pathVars, logVars>>
    /\ fn = "partitionIndexFromDevice" /\ val = NoVal
    /\ LET dev == partitionDevice(arg[1], arg[2])
           index == partitionIndexFromDevice(dev)
       IN  val' = [dev |-> dev, index |-> index,
                   back |-> IF index >= 0 THEN partitionDevice(arg[1], index) ELSE EmptyStr]
    /\ UNCHANGED <<fn, arg, probe>>

\* BuildPartitionCommand of a prepare-disk step with the given boot size
PartCmdCall ==
    /\ UNCHANGED <<runVars, syncVars, pathVars, logVars>>
    /\ fn = "BuildPartitionCommand" /\ val = NoVal
    /\ LET step == [Step("prepare-disk", DevPrefix \o NameMmc0, NameSda, 0, EmptyStr)
                        EXCEPT !.SizeBytes = arg[1]]
           built == BuildPartitionCommand(step, arg[2])
       IN  val' = [err |-> built.err, target |-> built.cmd.a[1], token |-> built.cmd.a[2]]
    /\ UNCHANGED <<fn, arg, probe>>

NextDev == BaseCall \/ SameCall \/ IndexCall \/ PartCmdCall

SpecDev == InitDev /\ [][NextDev]_vars

(***************************************************************************)
(* Claims about the device-name functions                                  *)
(***************************************************************************)
\* C23: base-disk normalisation maps every partition device of the three
\* families to the path of its disk and every whole-disk path to itself, so
\* that applying it twice gives what applying it once gives.
C23_BaseDiskIdempotent ==
    (fn = "baseDiskFromDevice" /\ val # NoVal) =>
        /\ val.once = DevPrefix \o DiskOf(arg[1])
        /\ val.twice = val.once

\* C24: sameDisk(a, b) is true exactly when a and b, each a partition path
\* or a whole-disk path, are on one disk.
C24_SameDiskExact ==
    (fn = "sameDisk" /\ val # NoVal) =>
        (val.same <=> DiskOf(arg[1]) = DiskOf(arg[2]))

\* C25: for every disk of the three families and every N from 1 on, the
\* index derived from partition_device(base, N) is N, and partition_device
\* of that index is the same device again.
C25_IndexRoundTrip ==
    (fn = "partitionIndexFromDevice" /\ val # NoVal) =>
        /\ val.index = arg[2]
        /\ val.back = val.dev
        /\ val.dev = DevPrefix \o PartName(TrimPrefix(arg[1], DevPrefix), arg[2])

C25_Witness ==
    /\ fn = "partitionIndexFromDevice" /\ arg = <<NameNvme0n1, 9>>
    /\ val # NoVal /\ val.index = 9
    /\ val.dev = DevPrefix \o NameNvme0n1 \o <<"p", "9">>

(***************************************************************************)
(* ValidateCloneSafety with its probes: os.Stat, lsblk for the sizes,      *)
(* findmnt for the disk and lsblk for its partitions                       *)
(***************************************************************************)
\* What a command printed: err tells that it failed.
Out(err, text) == [err |-> err, text |-> text]

ParseUintOk(text) == Len(text) > 0 /\ \A i \in 1..Len(text) : IsDigit(text[i])

\* a size probe that never learns a size
diskSizeUnknown(out) == 0

\* diskSizeBytes: 0 stands for the zero value returned with an error
diskSizeBytes(out) ==
    IF out.err THEN 0
    ELSE IF out.text = EmptyStr THEN 0
    ELSE IF ~ParseUintOk(out.text) THEN 0
    ELSE DigitsVal(out.text)

deviceMountpoint(out) == IF out.err THEN EmptyStr ELSE TrimSpace(out.text)

\* a partition scan that finds nothing mounted
mountedPartitionsNone(dev, out) == <<>>

\* mountedPartitionsOfDisk: the names of the mounted partitions of dev among
\* the lines of lsblk -nr -o NAME,MOUNTPOINT
mountedPartitionsOfDisk(dev, out) ==
    LET base == TrimPrefix(ensureDevPrefix(dev), DevPrefix)
        Mounts(line) ==
            LET fields == Fields(line)
            IN  /\ Len(fields) = 2
                /\ fields[2] # EmptyStr /\ fields[2] # Dash
                /\ HasPrefix(fields[1], base) /\ fields[1] # base
    IN  [i \in 1..Len(SelectSeq(out.text, Mounts)) |-> SelectSeq(out.text, Mounts)[i][1]]

\* What ValidateCloneSafety learns of the destination dst and the source.
EnvOf(p, dst) ==
    [exists |-> p.exists,
     srcSize |-> diskSizeBytes(p.srcSize),
     dstSize |-> diskSizeBytes(p.dstSize),
     mounted |-> deviceMountpoint(p.findmnt) # EmptyStr,
     partsMounted |-> ~p.lsblk.err /\ Len(mountedPartitionsOfDisk(dst, p.lsblk)) > 0]

SizeOuts ==
    {Out(TRUE, EmptyStr), Out(FALSE, EmptyStr), Out(FALSE, <<"0">>),
     Out(FALSE, <<"8">>), Out(FALSE, <<"1", "6">>)}

FindmntOuts == {Out(TRUE, EmptyStr), Out(FALSE, <<Blank>> \o DataPath)}

\* the partition listing of a machine booted from src with the disk dd
\* attached: the first partition of dd is mounted, or not (an empty column
\* or "-")
LsblkOuts(src, dd) ==
    {Out(TRUE, <<>>)} \cup
    {Out(FALSE, << <<src, EmptyStr>>, <<PartName(src, 1), BootPath>>, <<PartName(src, 2), RootPath>>,
                   <<dd, EmptyStr>>, <<PartName(dd, 1), mp>> >>) :
        mp \in {EmptyStr, Dash, DataPath}}

SafetyDests(disk) ==
    LET other == OtherDisk(disk)
    IN  {EmptyStr, other, DevPrefix \o other, PartName(other, 1), DevPrefix \o PartName(other, 1),
         disk, PartName(disk, 1)}

InitSafety ==
    /\ InitSyncIdle /\ InitPathIdle /\ InitLogIdle
    /\ steps = <<>> /\ stateLog = <<>> /\ handed = <<>> /\ results = <<>> /\ runErr = NoErr
    /\ safe = "unknown" /\ answer = "none"
    /\ fn = "none" /\ arg = <<>> /\ val = NoVal
    /\ pc = "s-start"
    /\ \E disk \in BootDisks :
         /\ sys = PlanSys(disk, "two", FALSE)
         /\ \E dest \in SafetyDests(disk), force \in BOOLEAN :
              /\ plan = [SourceDisk |-> baseDiskFromDevice(sys.BootDisk),
                         DestinationDisk |-> dest, Partitions |-> PlanParts(sys.Mounted)]
              /\ opts = [PlanOptions(dest, FALSE, FALSE, FALSE, FALSE, <<>>, "")
                            EXCEPT !.ForceSync = force]
              /\ hw = [bootOn |-> disk, destOn |-> DiskOfDest(disk, dest)]
              /\ \E ex \in BOOLEAN, ss \in SizeOuts, ds \in SizeOuts, fm \in FindmntOuts,
                    ls \in LsblkOuts(disk, OtherDisk(disk)) :
                   probe = [exists |-> ex, srcSize |-> ss, dstSize |-> ds, findmnt |-> fm, lsblk |-> ls]

\* ValidateCloneSafety(plan, opts) on a machine whose probes print probe
SafetyCheck ==
    /\ UNCHANGED <<syncVars, pathVars, logVars>>
    /\ pc = "s-start"
    /\ safe' = ValidateCloneSafety(plan, opts, EnvOf(probe, ensureDevPrefix(opts.Destination)))
    /\ pc' = "s-checked"
    /\ UNCHANGED <<hw, sys, opts, plan, steps, stateLog, handed, results, runErr, answer, devVars>>

NextSafety == SafetyCheck

SpecSafety == InitSafety /\ [][NextSafety]_vars

(***************************************************************************)
(* Claims about the safety check                                           *)
(***************************************************************************)
Checked == pc = "s-checked"

\* C26: looksLikePartition is true of a device path exactly when the path
\* names a partition of one of the three families, false of their whole
\* disks and of the empty string; and ValidateCloneSafety refuses every
\* destination of which it is true.
C26_PartitionDestinationRefused ==
    /\ ~looksLikePartition(EmptyStr)
    /\ pc \in {"s-start", "s-checked"} =>
         LET d == ensureDevPrefix(opts.Destination)
         IN  /\ looksLikePartition(d) <=> NumberIn(d) # 0
             /\ looksLikePartition(opts.Destination) <=> NumberIn(d) # 0
             /\ \A disk \in AllDisks : ~looksLikePartition(DevPrefix \o disk)
             /\ (Checked /\ looksLikePartition(d)) => safe # ""

C26_Witness ==
    /\ Checked /\ hw.bootOn = NameMmc0
    /\ opts.Destination = DevPrefix \o PartName(NameMmc1, 1)
    /\ looksLikePartition(opts.Destination)
    /\ probe.exists /\ safe = "partition"

\* the size in bytes a block listing printed, when it printed one
SizeRead(out) == ~out.err /\ ParseUintOk(out.text)
Smaller == /\ SizeRead(probe.srcSize) /\ SizeRead(probe.dstSize)
           /\ DigitsVal(probe.dstSize.text) < DigitsVal(probe.srcSize.text)

C28_SentinelSourceRefused ==
    (pc = "p-checked" /\ sys.BootDisk = BootedDisk
        /\ opts.Destination \in {NameSdb, DevPrefix \o NameSdb}) => safe # ""

(***************************************************************************)
(* Claims about the commands of a step                                     *)
(***************************************************************************)
\* C30: for a prepare-disk step with size_bytes above 0 the runner runs the
\* resize of partition 1 right after the partition-table command succeeded,
\* within the same step; when the partition-table command fails the resize
\* is not attempted and the step fails.
C30_ResizeFollowsTable ==
    (op = "run" /\ rkind = "command" /\ spc = "returned" /\ ~RunRefuses(rn, st)
        /\ st.Operation = "prepare-disk" /\ st.SizeBytes > 0) =>
        LET built == BuildPartitionCommand(st, rn.PartitionStrategy)
            resize == Cmd("parted resizepart 1",
                          <<ensureDevPrefix(st.DestinationDisk), Itoa(st.SizeBytes)>>)
        IN  /\ built.err => (cmdlog = <<>> /\ ret = "err")
            /\ ~built.err =>
                 /\ cmdlog \in {<<built.cmd>>, <<built.cmd, resize>>}
                 /\ cmdlog = <<built.cmd>> => ret = "err"
                 /\ ret = "ok" => cmdlog = <<built.cmd, resize>>

C30_Witness ==
    /\ op = "run" /\ rkind = "command" /\ spc = "returned"
    /\ st.Operation = "prepare-disk" /\ st.SizeBytes = 3 /\ rn.PartitionStrategy = "new-layout"
    /\ ret = "ok" /\ Len(cmdlog) = 2
    /\ cmdlog[2].c = "parted resizepart 1"

(***************************************************************************)
(* Claims about the size of partition 1                                    *)
(***************************************************************************)
\* C31: with initialize, the prepare-disk step BuildExecutionSteps emits
\* carries size_bytes equal to options.p1_size_bytes, so that a size asked
\* for partition 1 reaches the runner.
C31_PrepareDiskCarriesP1Size ==
    (Built /\ opts.Initialize) =>
        /\ steps[1].Operation = "prepare-disk"
        /\ steps[1].SizeBytes = opts.P1SizeBytes

(***************************************************************************)
(* The state file written by AppendStateLog, kept as its lines.  A write   *)
(* that fails has written the first cut lines of what it was given; the    *)
(* Stat of the file just opened succeeds.                                  *)
(***************************************************************************)
MaxLogCalls == 3

Line(kind, text) == [kind |-> kind, text |-> text]
HeaderLine == Line("header", "# Klon state log")
BlankLine == Line("blank", "")

ResultOf(phase) ==
    IF phase = "APPLY_SUCCESS" THEN "SUCCESS"
    ELSE IF phase = "APPLY_FAILED" THEN "FAILED"
    ELSE "PENDING APPLY"

\* the lines of one entry: title, the fields and steps, the result, a blank
EntryLines(phase) ==
    <<Line("title", phase), Line("fields", ""), Line("result", ResultOf(phase)), BlankLine>>

\* an AppendStateLog that writes the header with every entry
AppendStateLogWithHeader(file, phase, fail, cut) ==
    IF fail = "open" THEN file ELSE file \o <<HeaderLine, BlankLine>> \o EntryLines(phase)

\* The file after AppendStateLog(path, ..., phase, err).  fail: "none", or
\* the call that fails: "open", the write of the "header", of the "entry".
AppendStateLog(file, phase, fail, cut) ==
    LET header == IF Len(file) = 0 THEN <<HeaderLine, BlankLine>> ELSE <<>>
        entry == EntryLines(phase)
    IN  IF fail = "open" THEN file
        ELSE IF fail = "header" /\ header # <<>> THEN file \o SubSeq(header, 1, cut)
        ELSE IF fail = "entry" THEN file \o header \o SubSeq(entry, 1, cut)
        ELSE file \o header \o entry

InitLog ==
    /\ InitRunIdle /\ InitSyncIdle /\ InitPathIdle /\ InitDevIdle

AppendCall ==
    /\ UNCHANGED <<runVars, syncVars, pathVars, devVars>>
    /\ logCalls < MaxLogCalls
    /\ \E phase \in {"PLAN", "APPLY_SUCCESS", "APPLY_FAILED"},
          fail \in {"none", "open", "header", "entry"}, cut \in 0..3 :
         /\ fail = "header" => (Len(logFile) = 0 /\ cut < 2)
         /\ fail \in {"none", "open"} => cut = 0
         /\ logFile' = AppendStateLog(logFile, phase, fail, cut)
    /\ logPrev' = logFile
    /\ logCalls' = logCalls + 1

NextLog == AppendCall

SpecLog == InitLog /\ [][NextLog]_vars

GrowReturned == op = "run" /\ spc = "returned" /\ rkind = "command" /\ ~RunRefuses(rn, st)
                /\ st.Operation = "grow-partition"

NamesOf(cmds) == [i \in 1..Len(cmds) |-> cmds[i].c]

GrowAll == <<"parted resizepart 100%", "e2fsck -f -p", "resize2fs">>

\* C33: grow-partition runs parted resizepart, then e2fsck, then resize2fs; a parted
\* failure fails the step before the other two run, an e2fsck failure is ignored, a
\* resize2fs failure fails the step; an empty destination or an index of zero or
\* less fails the step without running any command.
C33_GrowPartitionCommands ==
    GrowReturned =>
        IF st.DestinationDisk = EmptyStr \/ st.PartitionIndex <= 0
        THEN cmdlog = <<>> /\ ret = "err"
        ELSE /\ NamesOf(cmdlog) \in {<<GrowAll[1]>>, GrowAll}
             /\ NamesOf(failed) = <<GrowAll[1]>> <=> NamesOf(cmdlog) = <<GrowAll[1]>>
             /\ NamesOf(failed) \in {<<GrowAll[1]>>, <<GrowAll[3]>>} <=> ret = "err"
             /\ NamesOf(failed) \in {<<>>, <<GrowAll[2]>>} <=> ret = "ok"
             /\ cmdlog[1].a = <<ensureDevPrefix(st.DestinationDisk), Itoa(st.PartitionIndex)>>
             /\ \A i \in 2..Len(cmdlog) :
                   cmdlog[i].a = <<partitionDevice(st.DestinationDisk, st.PartitionIndex)>>

\* a grow-partition step whose e2fsck failed and that still succeeded
C33_Witness ==
    /\ GrowReturned /\ ret = "ok" /\ NamesOf(cmdlog) = GrowAll
    /\ NamesOf(failed) = <<"e2fsck -f -p">>
\* the place of an adjustment in the order of AdjustSystem, 0 for any other command
AdjustRank(c) ==
    CASE c = "adjustFstab" -> 1
      [] c = "adjustCmdline" -> 2
      [] c = "adjustHostname" -> 3
      [] c = "applyLabels" -> 4
      [] c = "grub-install" -> 5
      [] c \in {"chroot klon-setup", "klon-setup"} -> 6
      [] OTHER -> 0

AdjustEnabled(rank, o) ==
    CASE rank = 1 -> TRUE
      [] rank = 2 -> ~o.LeaveSDUSB
      [] rank = 3 -> o.Hostname # EmptyStr
      [] rank = 4 -> o.LabelPartitions # EmptyStr
      [] rank = 5 -> o.GrubAuto
      [] rank = 6 -> Len(o.SetupArgs) > 0

\* the adjustments attempted, in the order of their attempts
Attempted == SelectSeq(cmdlog, LAMBDA c : AdjustRank(c.c) > 0)

\* AdjustSystem went past its mounts and has left its body
AdjustRan == op = "adjust" /\ spc \in {"defer", "returned"} /\ Attempted # <<>>

\* C34: AdjustSystem attempts its enabled adjustments in the order fstab, cmdline
\* (not at all with leave_sd_usb), hostname, labels, grub-install, setup hook; the
\* first adjustment that fails is the last one attempted and AdjustSystem returns
\* its error.
C34_AdjustmentsInOrder ==
    AdjustRan =>
        LET n == Len(Attempted)
            rank(i) == AdjustRank(Attempted[i].c)
            last == IF failed = <<>> THEN 6 ELSE rank(n)
        IN  /\ \A i \in 1..(n - 1) : rank(i) < rank(i + 1)
            /\ \A i \in 1..n : AdjustEnabled(rank(i), mopts)
            /\ \A k \in 1..last : AdjustEnabled(k, mopts) => \E i \in 1..n : rank(i) = k
            /\ failed # <<>> => failed = <<Attempted[n]>>
            /\ ret = (IF failed = <<>> THEN "ok" ELSE "err")

\* hostname, labels, grub-install and the setup hook are enabled, the kernel command
\* line is left alone, and applyLabels fails: grub-install and the hook are not tried
C34_Witness ==
    /\ AdjustRan /\ spc = "returned" /\ ret = "err" /\ mopts.LeaveSDUSB
    /\ mopts.GrubAuto /\ Len(mopts.SetupArgs) > 0
    /\ NamesOf(Attempted) = <<"adjustFstab", "adjustHostname", "applyLabels">>
    /\ NamesOf(failed) = <<"applyLabels">>
RequiredPaths == {"etc/os-release", "etc/fstab", "boot/cmdline.txt", "bin/sh", "usr/bin"}

\* VerifyClone went past its mounts and has left its body
VerifyRan ==
    /\ op = "verify" /\ spc \in {"defer", "returned"}
    /\ failed # <<>> \/ \E i \in 1..Len(cmdlog) : cmdlog[i].c = "chroot /bin/true"

\* C35: VerifyClone returns an error when the check of a required file or of the
\* directory usr/bin fails or when chroot /bin/true exits non-zero; when nothing but
\* fsck -n on the root or boot partition exits non-zero it succeeds.
C35_VerifyFailsOnRequired ==
    VerifyRan =>
        /\ (\E i \in 1..Len(failed) : failed[i].c \in RequiredPaths \cup {"chroot /bin/true"}) => ret = "err"
        /\ (\A i \in 1..Len(failed) : failed[i].c = "fsck -n") => ret = "ok"
        /\ \A i \in 1..Len(failed) :
              failed[i].c \in RequiredPaths => \A j \in 1..Len(cmdlog) : cmdlog[j].c # "chroot /bin/true"

\* fsck -n failed on the root and on the boot partition and the clone is verified
C35_Witness ==
    /\ VerifyRan /\ spc = "returned" /\ ret = "ok"
    /\ NamesOf(failed) = <<"fsck -n", "fsck -n">>
    /\ failed[1] # failed[2]

\* bin/sh is missing and VerifyClone fails
C35_WitnessMissing ==
    VerifyRan /\ ret = "err" /\ NamesOf(failed) = <<"bin/sh">>
(***************************************************************************)
(* Claims about the partition-table command                                *)
(***************************************************************************)
\* the least number of whole MiB that hold n bytes, n > 0
CeilMiB(n) == CHOOSE m \in 1..(n \div MiB + 1) : m * MiB >= n /\ (m - 1) * MiB < n

\* C36: the boot size token of the new-layout table is size_bytes in MiB, rounded
\* up, followed by M (300 MiB gives 300M), and 256M when size_bytes is zero or less.
C36_BootSizeToken ==
    (fn = "BuildPartitionCommand" /\ arg[2] = "new-layout" /\ val # NoVal) =>
        /\ ~val.err
        /\ val.token = (IF arg[1] <= 0 THEN <<"2", "5", "6">> ELSE Itoa(CeilMiB(arg[1]))) \o <<"M">>
        /\ arg[1] = 300 * MiB => val.token = <<"3", "0", "0", "M">>

\* one byte more than 300 MiB asks for 301M
C36_Witness ==
    /\ fn = "BuildPartitionCommand" /\ arg = <<300 * MiB + 1, "new-layout">>
    /\ val # NoVal /\ val.token = <<"3", "0", "1", "M">>
    /\ val.target = DevPrefix \o NameSda
(***************************************************************************)
(* Claims about the order of the built steps                               *)
(***************************************************************************)
StepsAt(o, idx) == {i \in 1..Len(steps) : steps[i].Operation = o /\ steps[i].PartitionIndex = idx}

\* C37: in the built step list every destination partition index has at most one
\* initialize-partition step, and that step precedes every sync-filesystem step for
\* the same index, also when the probe lists a source device more than once.
C37_InitializeOncePerIndex ==
    Built =>
        \A idx \in {steps[i].PartitionIndex : i \in 1..Len(steps)} :
            /\ Cardinality(StepsAt("initialize-partition", idx)) <= 1
            /\ \A i \in StepsAt("initialize-partition", idx), j \in StepsAt("sync-filesystem", idx) :
                  i < j
(***************************************************************************)
(* Claims about the destination of the sync                                *)
(***************************************************************************)
\* C38: the destination directory of the rsync command of a sync-filesystem step is
\* the directory on which the runner mounted the destination partition (for the
\* jobs of the root sync: that directory or the job's subtree in it), also for a
\* step with an empty mountpoint whose source is mounted on a scratch directory.
C38_RsyncIntoMountedDir ==
    (op = "sync" /\ rsyncCmds # {}) =>
        \A c \in rsyncCmds :
            /\ SyncDestPath(rn, st) \in made
            /\ IF st.Mountpoint = RootPath
               THEN CmdDstDir(c) = SyncDestPath(rn, st) \/ Under(CmdDstDir(c), SyncDestPath(rn, st))
               ELSE CmdDstDir(c) = SyncDestPath(rn, st)
(***************************************************************************)
(* The root sync under a fair scheduler                                    *)
(***************************************************************************)
\* runSyncFilesystem entered for the step of the root partition
InitRoot ==
    /\ InitRunIdle /\ InitPathIdle /\ InitDevIdle /\ InitSyncCommon
    /\ op = "sync" /\ mplan = <<>> /\ mopts = NoOpts
    /\ rkind = "command" /\ rbound = NameSdb
    /\ rn \in SyncRunners
    /\ st = SyncStep(EmptyStr, 2, RootPath)

\* one status for each of the three ways runCmd ends: success, the tolerated
\* partial transfer, and a failure
RootStatuses == {0, PartialTransfer, 1}

NextRoot ==
    \/ SyncEnter \/ SyncSource \/ RootBuild
    \/ \E j \in Jobs :
         Spawn(j) \/ Acquire(j) \/ (\E s \in RootStatuses : ExitWith(j, s)) \/ Send(j) \/ Release(j)
    \/ Collect \/ SyncFinish \/ RunDefer

\* The Go scheduler runs some goroutine that can run and every rsync child ends:
\* the sync does not stand still while one of its steps can be taken.  Fairness
\* to each goroutine by itself implies it, every goroutine taking finitely many
\* steps.
FairRoot == WF_vars(NextRoot)

SpecRootFair == InitRoot /\ [][NextRoot]_vars /\ FairRoot

\* every worker has sent its result and given its semaphore slot back, and
\* runSyncFilesystem has returned
AllDelivered == spc = "returned" /\ sem = 0 /\ \A j \in Jobs : jstate[j] = "done"

UnknownReturned ==
    /\ op = "run" /\ spc = "returned" /\ rkind = "command"
    /\ st.Operation \notin KnownOperations

\* C40 as stated: CommandRunner.Run returns success and executes no command for
\* every step whose operation tag is not one of the five known operations.
C40_UnknownOperationSucceeds ==
    UnknownReturned => (ret = "ok" /\ cmdlog = <<>>)

\* C40, amended: CommandRunner.Run executes no command for a step whose operation
\* tag is not one of the five known operations; it returns success, so that Apply
\* goes on, unless the step names a destination other than the one the runner is
\* bound to, in which case it returns the error of the destination check.
C40_UnknownOperationIgnored ==
    UnknownReturned =>
        /\ cmdlog = <<>>
        /\ ret = (IF RunRefuses(rn, st) THEN "err" ELSE "ok")

\* a rename-disk step for the bound destination was ignored
C40_Witness ==
    /\ UnknownReturned /\ ret = "ok" /\ cmdlog = <<>>
    /\ st.Operation = "rename-disk" /\ st.DestinationDisk = NameSdb
    /\ rn.DestDisk = DevPrefix \o NameSdb
====
